---- MODULE Spec2Model ----
(***************************************************************************)
(* Five-stage pipeline simulator (src/wasm/simulator.hpp) with its         *)
(* datapath functions (src/src/execution.hpp).                             *)
(*                                                                         *)
(* A uint32_t is held as the integer of [-2^31, 2^31) congruent to it      *)
(* modulo 2^32 (its two's-complement reading), so that every 32-bit        *)
(* pattern is a value the checker can hold; all arithmetic wraps at 2^32.  *)
(***************************************************************************)
EXTENDS Integers, Sequences, FiniteSets, TLC

VARIABLES PC, registers, dataMap, textMap, pipeline, instructionRegisters,
          forwardingStatus, uiResponse, running, isPipeline, isDataForwarding,
          stats, registerDependencies, branchPredictor, instructionCount, logs,
          image, stepCalls, lastStep, retired, ub, accesses, runSteps

vars == <<PC, registers, dataMap, textMap, pipeline, instructionRegisters,
          forwardingStatus, uiResponse, running, isPipeline, isDataForwarding,
          stats, registerDependencies, branchPredictor, instructionCount, logs,
          image, stepCalls, lastStep, retired, ub, accesses, runSteps>>

(***************************************************************************)
(* Bounds of the model.                                                    *)
(***************************************************************************)
\* calls to step() made on one loaded program
MaxStepCalls == 22
\* length of the generated straight-line ALU programs
MaxAluLen == 2
\* the last call of step() after which a mid-run setEnvironment is explored
MaxToggleStep == 2
\* the cap of run() on its step count (MAX_STEPS of types.hpp, which is not
\* among the sources: a small value stands for it)
MAX_STEPS == 44

(***************************************************************************)
(* 32-bit words.                                                           *)
(***************************************************************************)
MinWord == -2147483647 - 1
MaxWord == 2147483647

\* h reduced to a signed 16-bit quantity
Wrap16(h) == ((h + 32768) % 65536) - 32768

\* a + b modulo 2^32, computed on 16-bit halves
Add32(a, b) ==
    LET lo == (a % 65536) + (b % 65536)
        hi == (a \div 65536) + (b \div 65536) + (lo \div 65536)
    IN  Wrap16(hi) * 65536 + (lo % 65536)

\* two's-complement negation and a - b modulo 2^32
Neg32(a) == IF a = MinWord THEN MinWord ELSE 0 - a
Sub32(a, b) == Add32(a, Neg32(b))

\* unsigned comparison of two words
ULT(a, b) == IF (a < 0) = (b < 0) THEN a < b ELSE b < 0
UGT(a, b) == ULT(b, a)

\* (x >> j) & (2^m - 1), for j + m <= 32 and m <= 30
Bits(x, j, m) == (x \div (2^j)) % (2^m)

\* bit 31 of x
Bit31(x) == IF x < 0 THEN 1 ELSE 0

\* a v-bit field read as a signed number (sign extension)
SignExt(v, bits) == IF v >= 2^(bits - 1) THEN v - 2^bits ELSE v

\* bitwise operations, bit by bit: f is the truth table <<f00, f01, f10, f11>>
RECURSIVE BitOp(_, _, _, _)
BitOp(f, a, b, n) ==
    IF n = 0 THEN 0
    ELSE f[2 * (a % 2) + (b % 2) + 1] + 2 * BitOp(f, a \div 2, b \div 2, n - 1)
Bitwise(f, a, b) ==
    LET low == BitOp(f, a % (2^30), b % (2^30), 30)
        b30 == f[2 * Bits(a, 30, 1) + Bits(b, 30, 1) + 1]
        b31 == f[2 * Bit31(a) + Bit31(b) + 1]
    IN  low + b30 * (2^30) + (IF b31 = 1 THEN MinWord ELSE 0)
And32(a, b) == Bitwise(<<0, 0, 0, 1>>, a, b)
Or32(a, b)  == Bitwise(<<0, 1, 1, 1>>, a, b)
Xor32(a, b) == Bitwise(<<0, 1, 1, 0>>, a, b)

\* a << k, a >> k (logical) and a >> k (arithmetic), 0 <= k <= 31
Shl32(a, k) ==
    IF k = 0 THEN a
    ELSE IF k = 1 THEN Add32(a, a)
    ELSE IF k = 31 THEN (IF a % 2 = 1 THEN MinWord ELSE 0)
    ELSE LET low == a % (2^(32 - k))
         IN  (IF low >= 2^(31 - k) THEN low - 2^(32 - k) ELSE low) * (2^k)
Srl32(a, k) ==
    IF k = 31 THEN Bit31(a)
    ELSE IF k = 0 \/ a >= 0 THEN a \div (2^k)
    ELSE ((a \div (2^k)) + 2^(31 - k)) + 2^(31 - k)
Sra32(a, k) == IF k = 31 THEN 0 - Bit31(a) ELSE a \div (2^k)

\* a * b modulo 2^32, by shift and add over the bits of b
RECURSIVE MulBits(_, _, _)
MulBits(a, b, n) ==
    IF n = 32 THEN 0
    ELSE Add32(IF Srl32(b, n) % 2 = 1 THEN Shl32(a, n) ELSE 0, MulBits(a, b, n + 1))
Mul32(a, b) == MulBits(a, b, 0)

\* int32 division and remainder, truncating toward zero (b # 0, no overflow)
Abs(a) == IF a < 0 THEN 0 - a ELSE a
Div32(a, b) ==
    LET q == Abs(a) \div Abs(b) IN IF (a < 0) = (b < 0) THEN q ELSE 0 - q
Rem32(a, b) ==
    LET r == Abs(a) % Abs(b) IN IF a < 0 THEN 0 - r ELSE r

(***************************************************************************)
(* Memory layout (types.hpp is not among the sources: the values are those *)
(* the specification's section 6.3 and the register reset imply).          *)
(***************************************************************************)
TEXT_SEGMENT_START == 0
DATA_SEGMENT_START == 268435456
MEMORY_SIZE == MinWord
INSTRUCTION_SIZE == 4
NUM_REGISTERS == 32

Stages == {"FETCH", "DECODE", "EXECUTE", "MEMORY", "WRITEBACK"}
\* variant: the DECODE slot is processed before the WRITEBACK slot
decodeFirstOrder == <<"DECODE", "WRITEBACK", "MEMORY", "EXECUTE", "FETCH">>
reverseStageOrder == <<"WRITEBACK", "MEMORY", "EXECUTE", "DECODE", "FETCH">>

NULL == [null |-> TRUE]

(***************************************************************************)
(* Encoding tables: the mnemonic of a word, "" when the table has none.    *)
(***************************************************************************)
RTypeName(opcode, func3, func7) ==
    IF opcode # 51 THEN ""
    ELSE CASE func3 = 0 /\ func7 = 0  -> "add"
           [] func3 = 0 /\ func7 = 32 -> "sub"
           [] func3 = 0 /\ func7 = 1  -> "mul"
           [] func3 = 4 /\ func7 = 1  -> "div"
           [] func3 = 6 /\ func7 = 1  -> "rem"
           [] func3 = 7 /\ func7 = 0  -> "and"
           [] func3 = 6 /\ func7 = 0  -> "or"
           [] func3 = 4 /\ func7 = 0  -> "xor"
           [] func3 = 1 /\ func7 = 0  -> "sll"
           [] func3 = 5 /\ func7 = 0  -> "srl"
           [] func3 = 5 /\ func7 = 32 -> "sra"
           [] func3 = 2 /\ func7 = 0  -> "slt"
           [] OTHER -> ""

ITypeName(opcode, func3) ==
    CASE opcode = 19 /\ func3 = 0 -> "addi"
      [] opcode = 19 /\ func3 = 7 -> "andi"
      [] opcode = 19 /\ func3 = 6 -> "ori"
      [] opcode = 19 /\ func3 = 4 -> "xori"
      [] opcode = 19 /\ func3 = 2 -> "slti"
      [] opcode = 19 /\ func3 = 3 -> "sltiu"
      [] opcode = 19 /\ func3 = 1 -> "slli"
      [] opcode = 19 /\ func3 = 5 -> "srli"
      [] opcode = 3 /\ func3 = 0  -> "lb"
      [] opcode = 3 /\ func3 = 1  -> "lh"
      [] opcode = 3 /\ func3 = 2  -> "lw"
      [] opcode = 3 /\ func3 = 3  -> "ld"
      [] opcode = 103 /\ func3 = 0 -> "jalr"
      [] OTHER -> ""

STypeName(opcode, func3) ==
    CASE opcode = 35 /\ func3 = 0 -> "sb"
      [] opcode = 35 /\ func3 = 1 -> "sh"
      [] opcode = 35 /\ func3 = 2 -> "sw"
      [] opcode = 35 /\ func3 = 3 -> "sd"
      [] OTHER -> ""

SBTypeName(opcode, func3) ==
    CASE opcode = 99 /\ func3 = 0 -> "beq"
      [] opcode = 99 /\ func3 = 1 -> "bne"
      [] opcode = 99 /\ func3 = 4 -> "blt"
      [] opcode = 99 /\ func3 = 5 -> "bge"
      [] opcode = 99 /\ func3 = 6 -> "bltu"
      [] opcode = 99 /\ func3 = 7 -> "bgeu"
      [] OTHER -> ""

UTypeName(opcode) ==
    CASE opcode = 55 -> "lui"
      [] opcode = 23 -> "auipc"
      [] OTHER -> ""

UJTypeName(opcode) == IF opcode = 111 THEN "jal" ELSE ""

(***************************************************************************)
(* Records.                                                                *)
(***************************************************************************)
\* InstructionNode(PC): a record waiting in the FETCH slot
InstructionNode(pc) ==
    [PC |-> pc, instruction |-> 0, instructionType |-> "", opcode |-> 0,
     rd |-> 0, rs1 |-> 0, rs2 |-> 0, func3 |-> 0, func7 |-> 0,
     stage |-> "FETCH", stalled |-> FALSE, isBranch |-> FALSE, isJump |-> FALSE]

InstructionRegisters0 == [RA |-> 0, RB |-> 0, RM |-> 0, RY |-> 0, RZ |-> 0]
ForwardingStatus0 == [raForwarded |-> FALSE, rbForwarded |-> FALSE, rmForwarded |-> FALSE]
UIResponse0 == [isStalled |-> FALSE, isFlushed |-> FALSE, isDataForwarded |-> FALSE,
                isProgramTerminated |-> FALSE]
SimulationStats0 ==
    [totalCycles |-> 0, instructionsExecuted |-> 0, stallBubbles |-> 0,
     dataHazards |-> 0, controlHazards |-> 0, dataHazardStalls |-> 0,
     controlHazardStalls |-> 0, pipelineFlushes |-> 0,
     dataTransferInstructions |-> 0, aluInstructions |-> 0, controlInstructions |-> 0]
EmptyPipeline == [st \in Stages |-> NULL]
EmptyMap == [a \in {} |-> 0]

\* m[k] = v, the key added when absent
MapPut(m, k, v) == [x \in (DOMAIN m) \cup {k} |-> IF x = k THEN v ELSE m[x]]
\* dataMap.count(a) ? dataMap[a] : 0
MapGet(m, a) == IF a \in DOMAIN m THEN m[a] ELSE 0

(***************************************************************************)
(* Branch predictor: a one-bit history per PC and a target buffer.         *)
(***************************************************************************)
BranchPredictor0 == [pht |-> {}, btb |-> EmptyMap]
getPHT(bp, pc) == pc \in bp.pht
predict(bp, pc) == getPHT(bp, pc)
isInBTB(bp, pc) == pc \in DOMAIN bp.btb
getTarget(bp, pc) == bp.btb[pc]
update(bp, pc, taken, target) ==
    [pht |-> IF taken THEN bp.pht \cup {pc} ELSE bp.pht \ {pc},
     btb |-> MapPut(bp.btb, pc, target)]

(***************************************************************************)
(* execution.hpp                                                           *)
(***************************************************************************)
initialiseRegisters ==
    [i \in 0..(NUM_REGISTERS - 1) |->
        CASE i = 2  -> 2147483612
          [] i = 3  -> 268435456
          [] i = 10 -> 1
          [] i = 11 -> 2147483612
          [] OTHER  -> 0]

\* FALSE where the function throws: addr + size is a 32-bit sum
isValidAddress(addr, size) == ~UGT(Add32(addr, size), MEMORY_SIZE)

\* the type of a word, "THROW" where none of the tables has it
classifyInstructions(instHex) ==
    LET opcode == instHex % 128
        func3  == Bits(instHex, 12, 3)
        func7  == Bits(instHex, 25, 7)
    IN  IF RTypeName(opcode, func3, func7) # "" THEN "R"
        ELSE IF ITypeName(opcode, func3) # "" THEN "I"
        ELSE IF STypeName(opcode, func3) # "" THEN "S"
        ELSE IF SBTypeName(opcode, func3) # "" THEN "SB"
        ELSE IF UTypeName(opcode) # "" THEN "U"
        ELSE IF UJTypeName(opcode) # "" THEN "UJ"
        ELSE "THROW"

\* fetch at the global PC: [node, PC, running, err]
fetchInstruction(node, pc, run, text) ==
    IF ~isValidAddress(pc, 4)
    THEN [node |-> node, PC |-> pc, running |-> run, err |-> TRUE]
    ELSE IF pc \in DOMAIN text
    THEN LET ty == classifyInstructions(text[pc])
         IN  IF ty = "THROW"
             THEN [node |-> [node EXCEPT !.instruction = text[pc]],
                   PC |-> pc, running |-> run, err |-> TRUE]
             ELSE [node |-> [node EXCEPT !.instruction = text[pc],
                                         !.instructionType = ty, !.PC = pc],
                   PC |-> Add32(pc, INSTRUCTION_SIZE), running |-> run, err |-> FALSE]
    ELSE [node |-> [node EXCEPT !.instruction = 0],
          PC |-> pc, running |-> FALSE, err |-> FALSE]

\* isBranch and isJump of a fetched record
classifyControl(node) ==
    [node EXCEPT !.isBranch = (node.instructionType = "SB"),
                 !.isJump = (node.instructionType = "UJ"
                             \/ (node.instruction % 128) = 103)]

ImmI(w)  == SignExt(Bits(w, 20, 12), 12)
ImmS(w)  == SignExt(Bits(w, 25, 7) * 32 + Bits(w, 7, 5), 12)
ImmSB(w) == SignExt(Bit31(w) * 4096 + Bits(w, 7, 1) * 2048
                    + Bits(w, 25, 6) * 32 + Bits(w, 8, 4) * 2, 13)
ImmU(w)  == w - (w % 4096)
ImmUJ(w) == SignExt(Bit31(w) * 1048576 + Bits(w, 12, 8) * 4096
                    + Bits(w, 20, 1) * 2048 + Bits(w, 21, 10) * 2, 21)

\* decode: the fields of the word and the operands read: [node, ir, err]
decodeInstruction(node, ir, regs) ==
    LET w  == node.instruction
        n  == [node EXCEPT !.opcode = w % 128, !.rd = Bits(w, 7, 5),
                           !.func3 = Bits(w, 12, 3), !.rs1 = Bits(w, 15, 5),
                           !.rs2 = Bits(w, 20, 5), !.func7 = Bits(w, 25, 7)]
        ty == node.instructionType
        ra == IF ty \in {"R", "I", "S", "SB"} THEN regs[n.rs1] ELSE 0
        i1 == [ir EXCEPT !.RA = ra]
    IN  CASE ty = "R"  -> [node |-> n, ir |-> [i1 EXCEPT !.RB = regs[n.rs2]], err |-> FALSE]
          [] ty = "I"  -> [node |-> n, ir |-> [i1 EXCEPT !.RB = ImmI(w)], err |-> FALSE]
          [] ty = "S"  -> [node |-> n, ir |-> [i1 EXCEPT !.RB = ImmS(w), !.RM = regs[n.rs2]],
                           err |-> FALSE]
          [] ty = "SB" -> [node |-> n, ir |-> [i1 EXCEPT !.RB = ImmSB(w)], err |-> FALSE]
          [] ty = "U"  -> [node |-> n, ir |-> [i1 EXCEPT !.RB = ImmU(w)], err |-> FALSE]
          [] ty = "UJ" -> [node |-> n, ir |-> [i1 EXCEPT !.RB = ImmUJ(w)], err |-> FALSE]
          [] OTHER     -> [node |-> n, ir |-> i1, err |-> TRUE]

Bool(b) == IF b THEN 1 ELSE 0

\* the result of an R-type mnemonic
ExecR(name, RA, RB) ==
    CASE name = "add" -> Add32(RA, RB)
      [] name = "sub" -> Sub32(RA, RB)
      [] name = "mul" -> Mul32(RA, RB)
      [] name = "div" -> IF RB = 0 THEN -1 ELSE Div32(RA, RB)
      [] name = "rem" -> IF RB = 0 THEN RA ELSE Rem32(RA, RB)
      [] name = "and" -> And32(RA, RB)
      [] name = "or"  -> Or32(RA, RB)
      [] name = "xor" -> Xor32(RA, RB)
      [] name = "sll" -> Shl32(RA, RB % 32)
      [] name = "srl" -> Srl32(RA, RB % 32)
      [] name = "sra" -> Sra32(RA, RB % 32)
      [] name = "slt" -> Bool(RA < RB)
      [] OTHER -> 0

\* the result of an I-type ALU mnemonic
ExecI(name, RA, RB) ==
    CASE name = "addi"  -> Add32(RA, RB)
      [] name = "andi"  -> And32(RA, RB)
      [] name = "ori"   -> Or32(RA, RB)
      [] name = "xori"  -> Xor32(RA, RB)
      [] name = "slti"  -> Bool(RA < RB)
      [] name = "sltiu" -> Bool(ULT(RA, RB))
      [] name = "slli"  -> Shl32(RA, RB % 32)
      [] name = "srli"  -> Srl32(RA, RB % 32)
      [] name = "srai"  -> Sra32(RA, RB % 32)
      [] OTHER -> 0

\* the condition of a branch mnemonic, on RA and RB
BranchTaken(name, RA, RB) ==
    CASE name = "beq"  -> RA = RB
      [] name = "bne"  -> RA # RB
      [] name = "blt"  -> RA < RB
      [] name = "bge"  -> RA >= RB
      [] name = "bltu" -> ULT(RA, RB)
      [] name = "bgeu" -> ~ULT(RA, RB)
      [] OTHER -> FALSE

\* the taken flag handed to the predictor
takenFlag(node, branchTaken) ==
    IF node.instructionType = "SB" THEN branchTaken
    ELSE node.opcode \in {103, 111}

\* execute: [ir, PC, taken, err]
executeInstruction(node, ir, pc) ==
    LET rn  == RTypeName(node.opcode, node.func3, node.func7)
        inm == ITypeName(node.opcode, node.func3)
        sn  == STypeName(node.opcode, node.func3)
        bn  == SBTypeName(node.opcode, node.func3)
        un  == UTypeName(node.opcode)
        jn  == UJTypeName(node.opcode)
        RA  == ir.RA
        RB  == ir.RB
        ok(i, p, t) == [ir |-> i, PC |-> p, taken |-> t, err |-> FALSE]
    IN  IF rn # "" THEN ok([ir EXCEPT !.RY = ExecR(rn, RA, RB)], pc, takenFlag(node, FALSE))
        ELSE IF inm # "" THEN
            IF inm \in {"lb", "lh", "lw"}
            THEN ok([ir EXCEPT !.RY = Add32(RA, RB)], pc, takenFlag(node, FALSE))
            ELSE IF inm = "ld"
            THEN [ir |-> ir, PC |-> pc, taken |-> FALSE, err |-> TRUE]
            ELSE IF inm = "jalr"
            THEN LET t == Add32(RA, RB)
                 IN  ok([ir EXCEPT !.RY = pc], t - (t % 2), takenFlag(node, FALSE))
            ELSE ok([ir EXCEPT !.RY = ExecI(inm, RA, RB)], pc, takenFlag(node, FALSE))
        ELSE IF sn # "" THEN ok([ir EXCEPT !.RY = Add32(RA, RB)], pc, takenFlag(node, FALSE))
        ELSE IF bn # "" THEN
            LET branchTaken == BranchTaken(bn, RA, RB)
            IN  ok([ir EXCEPT !.RY = Bool(branchTaken)],
                   IF branchTaken THEN Add32(node.PC, RB) ELSE pc,
                   takenFlag(node, branchTaken))
        ELSE IF un # "" THEN
            ok([ir EXCEPT !.RY = IF un = "lui" THEN RB ELSE Add32(node.PC, RB)],
               pc, takenFlag(node, FALSE))
        ELSE IF jn # "" THEN ok([ir EXCEPT !.RY = pc], Add32(node.PC, RB), takenFlag(node, FALSE))
        ELSE [ir |-> ir, PC |-> pc, taken |-> FALSE, err |-> TRUE]

\* the word read by a load mnemonic at address a
LoadValue(name, a, data) ==
    CASE name = "lb" -> SignExt(MapGet(data, a), 8)
      [] name = "lh" -> SignExt(MapGet(data, Add32(a, 1)) * 256 + MapGet(data, a), 16)
      [] name = "lw" -> SignExt(MapGet(data, Add32(a, 3)), 8) * 16777216
                        + MapGet(data, Add32(a, 2)) * 65536
                        + MapGet(data, Add32(a, 1)) * 256 + MapGet(data, a)

\* the data image after a store mnemonic writes v at address a
StoreValue(name, a, v, data) ==
    CASE name = "sb" -> MapPut(data, a, v % 256)
      [] name = "sh" -> MapPut(MapPut(data, a, v % 256), Add32(a, 1), Bits(v, 8, 8))
      [] name = "sw" -> MapPut(MapPut(MapPut(MapPut(data, a, v % 256),
                                   Add32(a, 1), Bits(v, 8, 8)),
                                   Add32(a, 2), Bits(v, 16, 8)),
                                   Add32(a, 3), Bits(v, 24, 8))
      [] OTHER -> data

LoadSize(name) == CASE name = "lb" -> 1 [] name = "lh" -> 2 [] name = "lw" -> 4

\* memory stage: [ir, dataMap, err]
memoryAccess(node, ir, data) ==
    LET address == ir.RY
        i1  == [ir EXCEPT !.RZ = ir.RY]
        inm == ITypeName(node.opcode, node.func3)
        sn  == STypeName(node.opcode, node.func3)
    IN  IF inm # "" THEN
            IF inm \in {"lb", "lh", "lw"}
            THEN IF ~isValidAddress(address, LoadSize(inm))
                 THEN [ir |-> i1, dataMap |-> data, err |-> TRUE]
                 ELSE [ir |-> [i1 EXCEPT !.RZ = LoadValue(inm, address, data)],
                       dataMap |-> data, err |-> FALSE]
            ELSE [ir |-> i1, dataMap |-> data, err |-> FALSE]
        ELSE IF sn # "" THEN
            [ir |-> i1, dataMap |-> StoreValue(sn, address, ir.RM, data), err |-> FALSE]
        ELSE [ir |-> i1, dataMap |-> data, err |-> FALSE]

\* a writeback that trusts rd: no test for rd = 0 and no re-pinning of x0
writebackUnpinned(node, ir, regs) ==
    [registers |-> IF node.instructionType \in {"R", "I", "U", "UJ"}
                   THEN [regs EXCEPT ![node.rd] = ir.RZ]
                   ELSE regs,
     err |-> (node.instructionType \notin {"R", "I", "S", "SB", "U", "UJ"})]

\* writeback: [registers, err]
writeback(node, ir, regs) ==
    LET r1 == IF node.rd # 0 /\ node.instructionType \in {"R", "I", "U", "UJ"}
              THEN [regs EXCEPT ![node.rd] = ir.RZ]
              ELSE regs
    IN  [registers |-> [r1 EXCEPT ![0] = 0],
         err |-> (node.rd # 0 /\ node.instructionType \notin {"R", "I", "S", "SB", "U", "UJ"})]

(***************************************************************************)
(* simulator.hpp: the Simulator object is the record s of its fields.      *)
(* retired (the PCs retired at WRITEBACK, in order), ub (a deleted record   *)
(* was used) and accesses (the loads and stores that reached memoryAccess, *)
(* in order) are history fields: no operation reads them.                  *)
(***************************************************************************)
\* a slot whose record was deleted while the slot still points to it
DANGLING == [dangling |-> TRUE]

Inc(st, f) == [st EXCEPT ![f] = @ + 1]

\* the first dependency whose pc is that of the record, 0 when there is none
RECURSIVE FindDep(_, _, _)
FindDep(deps, pc, i) ==
    IF i > Len(deps) THEN 0
    ELSE IF deps[i].pc = pc THEN i
    ELSE FindDep(deps, pc, i + 1)

\* the record reads register dep.reg: rs1, or rs2 for the types that have one
ReadsRs1(node, reg) == node.rs1 # 0 /\ node.rs1 = reg
ReadsRs2(node, reg) ==
    node.instructionType \in {"R", "S", "SB"} /\ node.rs2 # 0 /\ node.rs2 = reg

\* first loop of applyDataForwarding: producers that completed EXECUTE
RECURSIVE ForwardEX(_, _, _, _)
ForwardEX(s, node, deps, i) ==
    IF i > Len(deps) THEN s
    ELSE LET dep == deps[i]
             on  == dep.stage = "EXECUTE" /\ dep.reg # 0 /\ (dep.opcode % 128) # 3
             f1  == on /\ ReadsRs1(node, dep.reg)
             f2  == on /\ ReadsRs2(node, dep.reg)
             s1  == IF f1
                    THEN [s EXCEPT !.instructionRegisters.RA = dep.value,
                                   !.forwardingStatus.raForwarded = TRUE]
                    ELSE s
             s2  == IF ~f2 THEN s1
                    ELSE IF node.instructionType = "S"
                    THEN [s1 EXCEPT !.instructionRegisters.RM = dep.value,
                                    !.forwardingStatus.rmForwarded = TRUE]
                    ELSE [s1 EXCEPT !.instructionRegisters.RB = dep.value,
                                    !.forwardingStatus.rbForwarded = TRUE]
             s3  == IF f1 \/ f2
                    THEN [s2 EXCEPT !.uiResponse.isDataForwarded = TRUE,
                                    !.logs = @ \cup {300}]
                    ELSE s2
         IN  ForwardEX(s3, node, deps, i + 1)

\* second loop of applyDataForwarding: producers that completed MEMORY
RECURSIVE ForwardMEM(_, _, _, _)
ForwardMEM(s, node, deps, i) ==
    IF i > Len(deps) THEN s
    ELSE LET dep == deps[i]
             on  == dep.stage = "MEMORY" /\ dep.reg # 0
             f1  == on /\ ReadsRs1(node, dep.reg) /\ ~s.forwardingStatus.raForwarded
             s1  == IF f1
                    THEN [s EXCEPT !.instructionRegisters.RA = dep.value,
                                   !.forwardingStatus.raForwarded = TRUE]
                    ELSE s
             f2  == on /\ ReadsRs2(node, dep.reg)
                    /\ ~s1.forwardingStatus.rbForwarded /\ ~s1.forwardingStatus.rmForwarded
             s2  == IF ~f2 THEN s1
                    ELSE IF node.instructionType = "S"
                    THEN [s1 EXCEPT !.instructionRegisters.RM = dep.value,
                                    !.forwardingStatus.rmForwarded = TRUE]
                    ELSE [s1 EXCEPT !.instructionRegisters.RB = dep.value,
                                    !.forwardingStatus.rbForwarded = TRUE]
             s3  == IF f1 \/ f2
                    THEN [s2 EXCEPT !.uiResponse.isDataForwarded = TRUE,
                                    !.logs = @ \cup {300}]
                    ELSE s2
         IN  ForwardMEM(s3, node, deps, i + 1)

\* forwarding from MEMORY-stage producers only: the EX -> EX path left out
applyDataForwardingMemOnly(s, node, depsSnapshot) ==
    IF ~s.isPipeline \/ ~s.isDataForwarding THEN s
    ELSE ForwardMEM([s EXCEPT !.forwardingStatus = ForwardingStatus0],
                    node, depsSnapshot, 1)

applyDataForwarding(s, node, depsSnapshot) ==
    IF ~s.isPipeline \/ ~s.isDataForwarding THEN s
    ELSE ForwardMEM(ForwardEX([s EXCEPT !.forwardingStatus = ForwardingStatus0],
                              node, depsSnapshot, 1),
                    node, depsSnapshot, 1)

\* a RAW test that sees the producer at EXECUTE only
checkDependenciesExOnly(s, node) ==
    /\ s.isPipeline
    /\ ~s.isDataForwarding
    /\ \E i \in 1..Len(s.registerDependencies) :
          LET dep == s.registerDependencies[i]
          IN  /\ dep.stage = "EXECUTE"
              /\ dep.pc # node.PC
              /\ (ReadsRs1(node, dep.reg) \/ ReadsRs2(node, dep.reg))

\* a RAW hazard of the record against the live dependency table
checkDependencies(s, node) ==
    /\ s.isPipeline
    /\ ~s.isDataForwarding
    /\ \E i \in 1..Len(s.registerDependencies) :
          LET dep == s.registerDependencies[i]
          IN  /\ dep.stage \in {"EXECUTE", "MEMORY"}
              /\ dep.pc # node.PC
              /\ (ReadsRs1(node, dep.reg) \/ ReadsRs2(node, dep.reg))

\* a hazard test that looks for the load one stage too late (at MEMORY)
LoadUseLate(node, dependencies) ==
    LET instruction == node.instruction
        opcode == instruction % 128
        rs1    == IF opcode \in {23, 55, 111} THEN 0 ELSE Bits(instruction, 15, 5)
        rs2    == Bits(instruction, 20, 5)
        hasRS2 == opcode \in {51, 35, 99}
    IN  \E i \in 1..Len(dependencies) :
            LET dep == dependencies[i]
            IN  /\ dep.stage = "MEMORY"
                /\ (dep.opcode % 128) = 3
                /\ ((rs1 # 0 /\ rs1 = dep.reg) \/ (hasRS2 /\ rs2 # 0 /\ rs2 = dep.reg))

\* the hazard test of checkLoadUseHazard, on the fields of the raw word
LoadUse(node, dependencies) ==
    LET instruction == node.instruction
        opcode == instruction % 128
        known  == opcode \in {51, 35, 99, 3, 19, 103, 23, 55, 111}
        rs1    == IF opcode \in {23, 55, 111} THEN 0 ELSE Bits(instruction, 15, 5)
        rs2    == Bits(instruction, 20, 5)
        hasRS2 == opcode \in {51, 35, 99}
    IN  /\ known
        /\ \E i \in 1..Len(dependencies) :
              LET dep == dependencies[i]
              IN  /\ dep.stage = "EXECUTE"
                  /\ (dep.opcode % 128) = 3
                  /\ ((rs1 # 0 /\ rs1 = dep.reg) \/ (hasRS2 /\ rs2 # 0 /\ rs2 = dep.reg))

\* [s, hazard]: a hazard found is counted as a stall
checkLoadUseHazard(s, node, dependencies) ==
    IF s.isPipeline /\ LoadUse(node, dependencies)
    THEN [s |-> [s EXCEPT !.logs = @ \cup {200},
                          !.stats = Inc(Inc(@, "stallBubbles"), "dataHazardStalls"),
                          !.uiResponse.isStalled = TRUE],
          hazard |-> TRUE]
    ELSE [s |-> s, hazard |-> FALSE]

\* variant: an entry is allocated at DECODE whatever rd is, x0 included
updateDependenciesAnyRd(s, node, stage) ==
    LET deps == s.registerDependencies
        it   == FindDep(deps, node.PC, 1)
        d1   == IF stage = "DECODE"
                THEN IF it # 0
                     THEN [deps EXCEPT ![it].reg = node.rd, ![it].stage = stage,
                                       ![it].opcode = node.opcode]
                     ELSE Append(deps, [reg |-> node.rd, pc |-> node.PC, stage |-> stage,
                                        opcode |-> node.opcode, value |-> 0])
                ELSE IF stage = "EXECUTE" /\ it # 0
                THEN [deps EXCEPT ![it].stage = stage,
                                  ![it].value = s.instructionRegisters.RY]
                ELSE IF stage = "MEMORY" /\ it # 0
                THEN [deps EXCEPT ![it].stage = stage,
                                  ![it].value = s.instructionRegisters.RZ]
                ELSE IF it # 0
                THEN [deps EXCEPT ![it].stage = stage]
                ELSE deps
    IN  IF stage = "WRITEBACK"
        THEN SelectSeq(d1, LAMBDA dep : dep.pc # node.PC)
        ELSE d1

\* variant: WRITEBACK marks the entry like any other stage and leaves it in
updateDependenciesKeep(s, node, stage) ==
    LET deps == s.registerDependencies
        it   == FindDep(deps, node.PC, 1)
    IN  IF stage = "DECODE" /\ node.rd # 0
        THEN IF it # 0
             THEN [deps EXCEPT ![it].reg = node.rd, ![it].stage = stage,
                               ![it].opcode = node.opcode]
             ELSE Append(deps, [reg |-> node.rd, pc |-> node.PC, stage |-> stage,
                                opcode |-> node.opcode, value |-> 0])
        ELSE IF stage = "EXECUTE" /\ it # 0
        THEN [deps EXCEPT ![it].stage = stage,
                          ![it].value = s.instructionRegisters.RY]
        ELSE IF stage = "MEMORY" /\ it # 0
        THEN [deps EXCEPT ![it].stage = stage,
                          ![it].value = s.instructionRegisters.RZ]
        ELSE IF it # 0
        THEN [deps EXCEPT ![it].stage = stage]
        ELSE deps

\* variant: WRITEBACK leaves the table as MEMORY left it
updateDependenciesNoErase(s, node, stage) ==
    LET deps == s.registerDependencies
        it   == FindDep(deps, node.PC, 1)
    IN  IF stage = "DECODE" /\ node.rd # 0
        THEN IF it # 0
             THEN [deps EXCEPT ![it].reg = node.rd, ![it].stage = stage,
                               ![it].opcode = node.opcode]
             ELSE Append(deps, [reg |-> node.rd, pc |-> node.PC, stage |-> stage,
                                opcode |-> node.opcode, value |-> 0])
        ELSE IF stage = "EXECUTE" /\ it # 0
        THEN [deps EXCEPT ![it].stage = stage,
                          ![it].value = s.instructionRegisters.RY]
        ELSE IF stage = "MEMORY" /\ it # 0
        THEN [deps EXCEPT ![it].stage = stage,
                          ![it].value = s.instructionRegisters.RZ]
        ELSE deps

\* the dependency table after the record completes a stage
updateDependencies(s, node, stage) ==
    LET deps == s.registerDependencies
        it   == FindDep(deps, node.PC, 1)
        d1   == IF stage = "DECODE" /\ node.rd # 0
                THEN IF it # 0
                     THEN [deps EXCEPT ![it].reg = node.rd, ![it].stage = stage,
                                       ![it].opcode = node.opcode]
                     ELSE Append(deps, [reg |-> node.rd, pc |-> node.PC, stage |-> stage,
                                        opcode |-> node.opcode, value |-> 0])
                ELSE IF stage = "EXECUTE" /\ it # 0
                THEN [deps EXCEPT ![it].stage = stage,
                                  ![it].value = s.instructionRegisters.RY]
                ELSE IF stage = "MEMORY" /\ it # 0
                THEN [deps EXCEPT ![it].stage = stage,
                                  ![it].value = s.instructionRegisters.RZ]
                ELSE IF it # 0
                THEN [deps EXCEPT ![it].stage = stage]
                ELSE deps
    IN  IF stage = "WRITEBACK"
        THEN SelectSeq(d1, LAMBDA dep : dep.pc # node.PC)
        ELSE d1

isPipelineEmpty(s) == \A st \in Stages : s.pipeline[st] = NULL

flushPipeline(s) ==
    IF ~s.isPipeline THEN s
    ELSE [s EXCEPT !.pipeline["FETCH"] = NULL, !.pipeline["DECODE"] = NULL,
                   !.stats = Inc(@, "pipelineFlushes"),
                   !.uiResponse.isFlushed = TRUE,
                   !.logs = @ \cup {300}]

(***************************************************************************)
(* advancePipeline. c is the state inside one call: the simulator s (its   *)
(* records are changed in place), the locals newPipeline, stalled,         *)
(* instructionProcessed, loadUseHazard and depsSnapshot, and err once a    *)
(* runtime_error has been thrown.                                          *)
(***************************************************************************)
Throw(c) == [c EXCEPT !.err = TRUE]

\* the record is re-emitted into its own slot, marked stalled
Hold(c, slot, node) ==
    LET n == [node EXCEPT !.stalled = TRUE]
    IN  [c EXCEPT !.s.pipeline[slot] = n,
                  !.newPipeline[node.stage] = n,
                  !.instructionProcessed = TRUE]

\* variant: a RAW stall that leaves stallBubbles alone
CountRawStallUncounted(c) ==
    [c EXCEPT !.s.stats = Inc(Inc(@, "dataHazards"), "dataHazardStalls"),
              !.s.uiResponse.isStalled = TRUE,
              !.s.logs = @ \cup {300}]

\* the three counters of a RAW stall
CountRawStall(c) ==
    [c EXCEPT !.s.stats = Inc(Inc(Inc(@, "dataHazards"), "stallBubbles"), "dataHazardStalls"),
              !.s.uiResponse.isStalled = TRUE,
              !.s.logs = @ \cup {300}]

\* FETCH: fetch at PC, predict, move to DECODE
FetchStage(c, slot, node) ==
    LET c1 == [c EXCEPT !.s.instructionCount = @ + 1]
        f  == fetchInstruction(node, c1.s.PC, c1.s.running, c1.s.textMap)
        c2 == [c1 EXCEPT !.s.PC = f.PC, !.s.running = f.running,
                         !.s.pipeline[slot] = f.node]
    IN  IF f.err THEN Throw(c2)
        ELSE IF ~(f.running /\ f.node.instruction # 0) THEN c2
        ELSE LET n1 == classifyControl(f.node)
                 pr == (n1.isBranch \/ n1.isJump) /\ c2.s.isPipeline
                 predictedTaken == predict(c2.s.branchPredictor, n1.PC)
                 c3 == IF pr THEN [c2 EXCEPT !.s.logs = @ \cup {300}] ELSE c2
                 c4 == IF pr /\ predictedTaken /\ isInBTB(c3.s.branchPredictor, n1.PC)
                       THEN [c3 EXCEPT !.s.PC = getTarget(c3.s.branchPredictor, n1.PC)]
                       ELSE c3
                 n2 == [n1 EXCEPT !.stage = "DECODE"]
             IN  [c4 EXCEPT !.s.pipeline[slot] = n2,
                            !.newPipeline["DECODE"] = n2,
                            !.instructionProcessed = TRUE]

\* the category counter of a decoded record
CountCategory(st, node) ==
    LET opcode == node.opcode % 128
        ty == node.instructionType
    IN  IF ty = "I" /\ opcode = 3 THEN Inc(st, "dataTransferInstructions")
        ELSE IF ty = "S" THEN Inc(st, "dataTransferInstructions")
        ELSE IF ty = "R" \/ (ty = "I" /\ opcode = 19) \/ ty = "U" THEN Inc(st, "aluInstructions")
        ELSE IF ty = "SB" \/ ty = "UJ" \/ (ty = "I" /\ opcode = 103)
        THEN Inc(st, "controlInstructions")
        ELSE st

\* variant: the category is counted as soon as the record is decoded, before
\* the RAW test
DecodeStageCountFirst(c, slot, node, fresh) ==
    LET d  == decodeInstruction(node, c.s.instructionRegisters, c.s.registers)
        c1 == [c EXCEPT !.s.instructionRegisters = d.ir, !.s.pipeline[slot] = d.node,
                        !.s.stats = CountCategory(@, d.node)]
    IN  IF d.err THEN Throw(c1)
        ELSE IF fresh /\ ~c1.s.isDataForwarding /\ checkDependencies(c1.s, d.node)
        THEN CountRawStall([Hold(c1, slot, d.node) EXCEPT !.stalled = TRUE])
        ELSE LET c3 == [c1 EXCEPT !.s.registerDependencies =
                                      updateDependencies(c1.s, d.node, "DECODE")]
                 n2 == [d.node EXCEPT !.stage = "EXECUTE"]
             IN  [c3 EXCEPT !.s.pipeline[slot] = n2,
                            !.newPipeline["EXECUTE"] = n2,
                            !.instructionProcessed = TRUE]

\* DECODE: decode, then (fresh records only) the RAW test, then move to EXECUTE
DecodeStage(c, slot, node, fresh) ==
    LET d  == decodeInstruction(node, c.s.instructionRegisters, c.s.registers)
        c1 == [c EXCEPT !.s.instructionRegisters = d.ir, !.s.pipeline[slot] = d.node]
    IN  IF d.err THEN Throw(c1)
        ELSE IF fresh /\ ~c1.s.isDataForwarding /\ checkDependencies(c1.s, d.node)
        THEN CountRawStall([Hold(c1, slot, d.node) EXCEPT !.stalled = TRUE])
        ELSE LET c2 == [c1 EXCEPT !.s.stats = CountCategory(@, d.node)]
                 c3 == [c2 EXCEPT !.s.registerDependencies =
                                      updateDependencies(c2.s, d.node, "DECODE")]
                 n2 == [d.node EXCEPT !.stage = "EXECUTE"]
             IN  [c3 EXCEPT !.s.pipeline[slot] = n2,
                            !.newPipeline["EXECUTE"] = n2,
                            !.instructionProcessed = TRUE]

\* the predictor update and the mispredict flush of a branch or jump at EXECUTE
ResolveControl(c, node, taken) ==
    IF ~(c.s.isPipeline /\ (node.isBranch \/ node.isJump)) THEN c
    ELSE LET predictedTaken == getPHT(c.s.branchPredictor, node.PC)
             ir == c.s.instructionRegisters
             sum == Add32(ir.RA, ir.RB)
             target == IF node.instructionType = "I" /\ node.opcode = 103
                       THEN sum - (sum % 2)
                       ELSE Add32(node.PC, ir.RB)
             c1 == [c EXCEPT !.s.branchPredictor = update(@, node.PC, taken, target)]
         IN  IF predictedTaken # taken
             THEN [c1 EXCEPT !.s = [flushPipeline(c1.s) EXCEPT
                                       !.stats = Inc(Inc(@, "controlHazards"),
                                                     "controlHazardStalls"),
                                       !.logs = @ \cup {300}],
                             !.newPipeline["FETCH"] = NULL,
                             !.newPipeline["DECODE"] = NULL]
             ELSE c1

\* variant: forwarding reads the live table, as WRITEBACK and MEMORY left it
ExecuteStageLive(c, slot, node) ==
    LET s1 == applyDataForwarding(c.s, node, c.s.registerDependencies)
        e  == executeInstruction(node, s1.instructionRegisters, s1.PC)
        s2 == [s1 EXCEPT !.instructionRegisters = e.ir, !.PC = e.PC]
        s3 == [s2 EXCEPT !.registerDependencies = updateDependencies(s2, node, "EXECUTE")]
        c1 == ResolveControl([c EXCEPT !.s = s3], node, e.taken)
        n2 == [node EXCEPT !.stage = "MEMORY"]
    IN  IF e.err THEN Throw([c EXCEPT !.s = s1])
        ELSE [c1 EXCEPT !.s.pipeline[slot] = n2,
                        !.newPipeline["MEMORY"] = n2,
                        !.instructionProcessed = TRUE]

\* EXECUTE: forward, execute, resolve, move to MEMORY
ExecuteStage(c, slot, node) ==
    LET s1 == applyDataForwarding(c.s, node, c.depsSnapshot)
        e  == executeInstruction(node, s1.instructionRegisters, s1.PC)
        s2 == [s1 EXCEPT !.instructionRegisters = e.ir, !.PC = e.PC]
        s3 == [s2 EXCEPT !.registerDependencies = updateDependencies(s2, node, "EXECUTE")]
        c1 == ResolveControl([c EXCEPT !.s = s3], node, e.taken)
        n2 == [node EXCEPT !.stage = "MEMORY"]
    IN  IF e.err THEN Throw([c EXCEPT !.s = s1])
        ELSE [c1 EXCEPT !.s.pipeline[slot] = n2,
                        !.newPipeline["MEMORY"] = n2,
                        !.instructionProcessed = TRUE]

\* the history entries of the record at MEMORY: its load or store, if it is one
AccessOf(node, ir) ==
    LET inm == ITypeName(node.opcode, node.func3)
        sn  == STypeName(node.opcode, node.func3)
    IN  IF inm \in {"lb", "lh", "lw"}
        THEN <<[kind |-> "load", pc |-> node.PC, address |-> ir.RY, size |-> LoadSize(inm)]>>
        ELSE IF inm = "" /\ sn \in {"sb", "sh", "sw"}
        THEN <<[kind |-> "store", pc |-> node.PC, address |-> ir.RY,
                size |-> CASE sn = "sb" -> 1 [] sn = "sh" -> 2 [] OTHER -> 4]>>
        ELSE <<>>

\* MEMORY: access the data image, move to WRITEBACK
MemoryStage(c, slot, node) ==
    LET m  == memoryAccess(node, c.s.instructionRegisters, c.s.dataMap)
        s1 == [c.s EXCEPT !.instructionRegisters = m.ir, !.dataMap = m.dataMap,
                          !.accesses = @ \o AccessOf(node, c.s.instructionRegisters)]
        s2 == [s1 EXCEPT !.registerDependencies = updateDependencies(s1, node, "MEMORY")]
        n2 == [node EXCEPT !.stage = "WRITEBACK"]
    IN  IF m.err THEN Throw([c EXCEPT !.s = s1])
        ELSE [c EXCEPT !.s = [s2 EXCEPT !.pipeline[slot] = n2],
                       !.newPipeline["WRITEBACK"] = n2,
                       !.instructionProcessed = TRUE]

\* WRITEBACK: commit, retire, and without pipelining place the next record
WritebackStage(c, slot, node) ==
    LET w  == writeback(node, c.s.instructionRegisters, c.s.registers)
        s1 == [c.s EXCEPT !.registers = w.registers]
        s2 == [s1 EXCEPT !.registerDependencies = updateDependencies(s1, node, "WRITEBACK"),
                         !.retired = Append(@, node.PC)]
        s3 == [s2 EXCEPT !.pipeline[slot] = IF slot = "WRITEBACK" THEN NULL ELSE DANGLING,
                         !.pipeline["WRITEBACK"] = NULL]
        reseed == /\ ~s3.isPipeline /\ s3.running /\ s3.PC \in DOMAIN s3.textMap
                  /\ \A st \in Stages : c.newPipeline[st] = NULL
    IN  IF w.err THEN Throw(c)
        ELSE [c EXCEPT !.s = s3,
                       !.instructionProcessed = TRUE,
                       !.newPipeline["FETCH"] = IF reseed THEN InstructionNode(s3.PC) ELSE @]

\* a record that arrives marked stalled
ResumeStage(c, slot, node) ==
    LET raw == ~c.s.isDataForwarding /\ checkDependencies(c.s, node)
        shouldStall ==
            \/ node.stage = "FETCH" /\ (c.stalled \/ c.loadUseHazard)
            \/ node.stage = "DECODE" /\ (c.stalled \/ c.loadUseHazard \/ raw)
            \/ node.stage = "EXECUTE" /\ (c.loadUseHazard \/ raw)
        c0 == [c EXCEPT !.s.pipeline[slot] = [node EXCEPT !.stalled = FALSE]]
        n0 == [node EXCEPT !.stalled = FALSE]
    IN  IF shouldStall
        THEN LET c1 == IF node.stage \in {"DECODE", "EXECUTE"} /\ raw
                       THEN CountRawStall(c0) ELSE c0
                 c2 == Hold(c1, slot, n0)
             IN  IF node.stage \in {"DECODE", "EXECUTE"}
                 THEN [c2 EXCEPT !.stalled = TRUE] ELSE c2
        ELSE CASE node.stage = "FETCH"   -> FetchStage(c0, slot, n0)
               [] node.stage = "DECODE"  -> DecodeStage(c0, slot, n0, FALSE)
               [] node.stage = "EXECUTE" -> ExecuteStage(c0, slot, n0)
               [] OTHER -> [c0 EXCEPT !.newPipeline[node.stage] = n0,
                                      !.instructionProcessed = TRUE]

\* variant: FETCH goes ahead whatever was held downstream in the cycle
FreshStageFetchThrough(c, slot, node) ==
    CASE node.stage = "FETCH" -> FetchStage(c, slot, node)
      [] node.stage = "DECODE" ->
            IF c.stalled \/ c.loadUseHazard
            THEN [Hold(c, slot, node) EXCEPT !.stalled = TRUE,
                                             !.s.uiResponse.isStalled = TRUE]
            ELSE DecodeStage(c, slot, node, TRUE)
      [] node.stage = "EXECUTE" ->
            LET h  == checkLoadUseHazard(c.s, node, c.depsSnapshot)
                c1 == [c EXCEPT !.s = h.s, !.loadUseHazard = h.hazard]
            IN  IF h.hazard
                THEN [Hold(c1, slot, node) EXCEPT !.s.uiResponse.isStalled = TRUE]
                ELSE IF ~c1.s.isDataForwarding /\ checkDependencies(c1.s, node)
                THEN CountRawStall([Hold(c1, slot, node) EXCEPT !.stalled = TRUE])
                ELSE ExecuteStage(c1, slot, node)
      [] node.stage = "MEMORY" -> MemoryStage(c, slot, node)
      [] node.stage = "WRITEBACK" -> WritebackStage(c, slot, node)

\* a record that arrives not stalled
FreshStage(c, slot, node) ==
    CASE node.stage = "FETCH" ->
            IF c.stalled \/ c.loadUseHazard
            THEN [Hold(c, slot, node) EXCEPT !.s.uiResponse.isStalled = TRUE]
            ELSE FetchStage(c, slot, node)
      [] node.stage = "DECODE" ->
            IF c.stalled \/ c.loadUseHazard
            THEN [Hold(c, slot, node) EXCEPT !.stalled = TRUE,
                                             !.s.uiResponse.isStalled = TRUE]
            ELSE DecodeStage(c, slot, node, TRUE)
      [] node.stage = "EXECUTE" ->
            LET h  == checkLoadUseHazard(c.s, node, c.depsSnapshot)
                c1 == [c EXCEPT !.s = h.s, !.loadUseHazard = h.hazard]
            IN  IF h.hazard
                THEN [Hold(c1, slot, node) EXCEPT !.s.uiResponse.isStalled = TRUE]
                ELSE IF ~c1.s.isDataForwarding /\ checkDependencies(c1.s, node)
                THEN CountRawStall([Hold(c1, slot, node) EXCEPT !.stalled = TRUE])
                ELSE ExecuteStage(c1, slot, node)
      [] node.stage = "MEMORY" -> MemoryStage(c, slot, node)
      [] node.stage = "WRITEBACK" -> WritebackStage(c, slot, node)

\* one turn of the loop over reverseStageOrder
ProcessStage(c, slot) ==
    LET node == c.s.pipeline[slot]
    IN  IF c.err \/ node = NULL THEN c
        ELSE IF node = DANGLING THEN Throw([c EXCEPT !.s.ub = TRUE])
        ELSE IF node.stalled THEN ResumeStage(c, slot, node)
        ELSE FreshStage(c, slot, node)

RECURSIVE StageLoopDecodeFirst(_, _)
StageLoopDecodeFirst(c, i) ==
    IF i > Len(decodeFirstOrder) THEN c
    ELSE StageLoopDecodeFirst(ProcessStage(c, decodeFirstOrder[i]), i + 1)

\* variant: the stages are walked in program order, FETCH first
RECURSIVE StageLoopForward(_, _)
StageLoopForward(c, i) ==
    IF i > Len(reverseStageOrder) THEN c
    ELSE StageLoopForward(
             ProcessStage(c, reverseStageOrder[Len(reverseStageOrder) + 1 - i]), i + 1)

RECURSIVE StageLoop(_, _)
StageLoop(c, i) ==
    IF i > Len(reverseStageOrder) THEN c
    ELSE StageLoop(ProcessStage(c, reverseStageOrder[i]), i + 1)

\* the locals of advancePipeline before the loop
BeginCycle(s) ==
    [s |-> [s EXCEPT !.uiResponse = UIResponse0, !.forwardingStatus = ForwardingStatus0],
     newPipeline |-> EmptyPipeline, stalled |-> FALSE,
     instructionProcessed |-> FALSE, loadUseHazard |-> FALSE,
     depsSnapshot |-> s.registerDependencies, err |-> FALSE]

\* variant: the cycle is counted whether or not a record was processed
EndCycleCounting(c) ==
    LET seed == /\ c.s.isPipeline /\ ~c.stalled /\ c.newPipeline["FETCH"] = NULL
                /\ c.s.running /\ c.s.PC \in DOMAIN c.s.textMap
        np == IF seed THEN [c.newPipeline EXCEPT !["FETCH"] = InstructionNode(c.s.PC)]
              ELSE c.newPipeline
        s1 == [c.s EXCEPT !.pipeline = np,
                          !.ub = @ \/ (\E st \in Stages : c.s.pipeline[st] = DANGLING)]
        s2 == IF isPipelineEmpty(s1) /\ DOMAIN s1.textMap # {}
                 /\ s1.PC \notin DOMAIN s1.textMap
              THEN [s1 EXCEPT !.running = FALSE] ELSE s1
        s3 == [s2 EXCEPT !.stats = Inc(@, "totalCycles")]
    IN  IF c.err THEN [s |-> c.s, err |-> TRUE] ELSE [s |-> s3, err |-> FALSE]

\* variant: FETCH is seeded after the loop in both modes
EndCycleSeedAlways(c) ==
    LET seed == /\ ~c.stalled /\ c.newPipeline["FETCH"] = NULL
                /\ c.s.running /\ c.s.PC \in DOMAIN c.s.textMap
        np == IF seed THEN [c.newPipeline EXCEPT !["FETCH"] = InstructionNode(c.s.PC)]
              ELSE c.newPipeline
        s1 == [c.s EXCEPT !.pipeline = np,
                          !.ub = @ \/ (\E st \in Stages : c.s.pipeline[st] = DANGLING)]
        s2 == IF isPipelineEmpty(s1) /\ DOMAIN s1.textMap # {}
                 /\ s1.PC \notin DOMAIN s1.textMap
              THEN [s1 EXCEPT !.running = FALSE] ELSE s1
        s3 == IF c.instructionProcessed THEN [s2 EXCEPT !.stats = Inc(@, "totalCycles")]
              ELSE s2
    IN  IF c.err THEN [s |-> c.s, err |-> TRUE] ELSE [s |-> s3, err |-> FALSE]

\* after the loop: seed FETCH, commit newPipeline, detect completion, count the cycle
EndCycle(c) ==
    LET seed == /\ c.s.isPipeline /\ ~c.stalled /\ c.newPipeline["FETCH"] = NULL
                /\ c.s.running /\ c.s.PC \in DOMAIN c.s.textMap
        np == IF seed THEN [c.newPipeline EXCEPT !["FETCH"] = InstructionNode(c.s.PC)]
              ELSE c.newPipeline
        s1 == [c.s EXCEPT !.pipeline = np,
                          !.ub = @ \/ (\E st \in Stages : c.s.pipeline[st] = DANGLING)]
        s2 == IF isPipelineEmpty(s1) /\ DOMAIN s1.textMap # {}
                 /\ s1.PC \notin DOMAIN s1.textMap
              THEN [s1 EXCEPT !.running = FALSE] ELSE s1
        s3 == IF c.instructionProcessed THEN [s2 EXCEPT !.stats = Inc(@, "totalCycles")]
              ELSE s2
    IN  IF c.err THEN [s |-> c.s, err |-> TRUE] ELSE [s |-> s3, err |-> FALSE]

\* [s, err]: the simulator after one cycle, err when a runtime_error left it
advancePipeline(s) == EndCycle(StageLoop(BeginCycle(s), 1))

\* variant: the catch block logs the error and leaves running as it is
StepOutcomeNoHalt(a) ==
    IF a.err
    THEN [s |-> [a.s EXCEPT !.logs = @ \cup {404},
                            !.uiResponse.isProgramTerminated = TRUE],
          ret |-> FALSE]
    ELSE IF ~a.s.running
    THEN [s |-> [a.s EXCEPT !.stats.instructionsExecuted = a.s.instructionCount,
                            !.uiResponse.isProgramTerminated = TRUE,
                            !.logs = @ \cup {200}],
          ret |-> FALSE]
    ELSE [s |-> [a.s EXCEPT !.stats.instructionsExecuted = a.s.instructionCount],
          ret |-> TRUE]

\* what step() does with the outcome a of advancePipeline
StepOutcome(a) ==
    IF a.err
    THEN [s |-> [a.s EXCEPT !.logs = @ \cup {404}, !.running = FALSE,
                            !.uiResponse.isProgramTerminated = TRUE],
          ret |-> FALSE]
    ELSE IF ~a.s.running
    THEN [s |-> [a.s EXCEPT !.stats.instructionsExecuted = a.s.instructionCount,
                            !.uiResponse.isProgramTerminated = TRUE,
                            !.logs = @ \cup {200}],
          ret |-> FALSE]
    ELSE [s |-> [a.s EXCEPT !.stats.instructionsExecuted = a.s.instructionCount],
          ret |-> TRUE]

\* [s, ret]: step() and the value it returns
step(s) == StepOutcome(advancePipeline(s))

\* variant: the latch slots and the dependency table survive the reset
resetKeepingLatches(s) ==
    [s EXCEPT !.instructionRegisters = InstructionRegisters0,
              !.registers = initialiseRegisters,
              !.dataMap = EmptyMap,
              !.textMap = EmptyMap,
              !.logs = {},
              !.PC = TEXT_SEGMENT_START,
              !.running = FALSE,
              !.stats = SimulationStats0,
              !.forwardingStatus = ForwardingStatus0,
              !.uiResponse = UIResponse0,
              !.branchPredictor = BranchPredictor0,
              !.instructionCount = 0,
              !.retired = <<>>,
              !.accesses = <<>>]

\* reset(): everything but the two mode flags
reset(s) ==
    [s EXCEPT !.pipeline = EmptyPipeline,
              !.instructionRegisters = InstructionRegisters0,
              !.registers = initialiseRegisters,
              !.registerDependencies = <<>>,
              !.dataMap = EmptyMap,
              !.textMap = EmptyMap,
              !.logs = {},
              !.PC = TEXT_SEGMENT_START,
              !.running = FALSE,
              !.stats = SimulationStats0,
              !.forwardingStatus = ForwardingStatus0,
              !.uiResponse = UIResponse0,
              !.branchPredictor = BranchPredictor0,
              !.instructionCount = 0,
              !.retired = <<>>,
              !.accesses = <<>>,
              !.ub = @ \/ (\E st \in Stages : s.pipeline[st] = DANGLING)]

\* the machine code words below DATA_SEGMENT_START, and the bytes from it on
TextPart(code) == {a \in DOMAIN code : ULT(a, DATA_SEGMENT_START)}
DataPart(code) == (DOMAIN code) \ TextPart(code)
\* the text words parseInstructions throws on
BadText(code) == {a \in TextPart(code) : classifyInstructions(code[a]) = "THROW"}

\* [s, ret]: loadProgram on what the lexer, parser and assembler make of the
\* input: input.kind is "empty", "parse", "assemble" or "ok", and input.code the
\* assembler's machine code (address -> value), copied in address order
loadProgram(s, input) ==
    LET s1 == [reset(s) EXCEPT !.running = TRUE]
        code == input.code
        bad == BadText(code)
        upto == {a \in DOMAIN code : \A b \in bad : ULT(a, b)}
    IN  IF input.kind = "empty"
        THEN [s |-> [s1 EXCEPT !.logs = {300}], ret |-> FALSE]
        ELSE IF input.kind \in {"parse", "assemble"}
        THEN [s |-> [s1 EXCEPT !.logs = {404}], ret |-> FALSE]
        ELSE LET s2 == [s1 EXCEPT
                          !.dataMap = [a \in DataPart(code) \cap upto |-> code[a] % 256],
                          !.textMap = [a \in TextPart(code) \cap upto |-> code[a]]]
             IN  IF bad # {}
                 THEN [s |-> [s2 EXCEPT !.logs = {404}], ret |-> FALSE]
                 ELSE [s |-> [s2 EXCEPT !.PC = TEXT_SEGMENT_START,
                                        !.instructionCount = 0,
                                        !.logs = {200},
                                        !.pipeline["FETCH"] = InstructionNode(TEXT_SEGMENT_START)],
                       ret |-> TRUE]

setEnvironment(s, pipe, dataForwarding) ==
    [s EXCEPT !.isPipeline = pipe, !.isDataForwarding = dataForwarding]

\* Simulator(): the object after construction
Simulator0 ==
    [PC |-> TEXT_SEGMENT_START, registers |-> initialiseRegisters,
     dataMap |-> EmptyMap, textMap |-> EmptyMap, pipeline |-> EmptyPipeline,
     instructionRegisters |-> InstructionRegisters0,
     forwardingStatus |-> ForwardingStatus0, uiResponse |-> UIResponse0,
     running |-> FALSE, isPipeline |-> TRUE, isDataForwarding |-> TRUE,
     stats |-> SimulationStats0, registerDependencies |-> <<>>,
     branchPredictor |-> BranchPredictor0, instructionCount |-> 0, logs |-> {},
     retired |-> <<>>, ub |-> FALSE, accesses |-> <<>>]

\* run(): [s, steps, ret], the simulator after run(), the calls of step() it
\* made and what the last of them returned; stepCount is the local of run()
RECURSIVE RunLoop(_, _)
RunNext(r, stepCount) ==
    IF ~r.ret THEN [s |-> r.s, steps |-> stepCount + 1, ret |-> FALSE]
    ELSE IF stepCount + 1 > MAX_STEPS
    THEN [s |-> [r.s EXCEPT !.logs = @ \cup {400},
                            !.uiResponse.isProgramTerminated = TRUE],
          steps |-> stepCount + 1, ret |-> TRUE]
    ELSE RunLoop(r.s, stepCount + 1)
RunLoop(s, stepCount) == RunNext(step(s), stepCount)
run(s) == [RunLoop(s, 0) EXCEPT !.s.logs = @ \cup {200}]

(***************************************************************************)
(* Inputs: machine code as the assembler emits it.                         *)
(***************************************************************************)
\* a 7-bit field placed at bits 31:25
Top7(v) == (IF v >= 64 THEN v - 128 ELSE v) * 33554432
EncR(func7, rs2, rs1, func3, rd, opcode) ==
    Top7(func7) + rs2 * 1048576 + rs1 * 32768 + func3 * 4096 + rd * 128 + opcode
EncI(imm, rs1, func3, rd, opcode) ==
    imm * 1048576 + rs1 * 32768 + func3 * 4096 + rd * 128 + opcode
EncS(imm, rs2, rs1, func3) ==
    Top7((imm \div 32) % 128) + rs2 * 1048576 + rs1 * 32768 + func3 * 4096
    + (imm % 32) * 128 + 35
EncSB(imm, rs2, rs1, func3) ==
    LET u == imm % 8192
    IN  Top7((u \div 4096) * 64 + ((u \div 32) % 64)) + rs2 * 1048576 + rs1 * 32768
        + func3 * 4096 + ((u \div 2) % 16) * 256 + ((u \div 2048) % 2) * 128 + 99
EncU(imm20, rd, opcode) ==
    (IF imm20 >= 524288 THEN imm20 - 1048576 ELSE imm20) * 4096 + rd * 128 + opcode
EncUJ(imm, rd) ==
    LET u == imm % 2097152
        top == (u \div 1048576) * 1024 + ((u \div 2) % 1024)
    IN  (IF top >= 1024 THEN top - 2048 ELSE top) * 2097152
        + ((u \div 2048) % 2) * 1048576 + ((u \div 4096) % 256) * 4096 + rd * 128 + 111

ADDI(rd, rs1, imm) == EncI(imm, rs1, 0, rd, 19)
XORI(rd, rs1, imm) == EncI(imm, rs1, 4, rd, 19)
ADD(rd, rs1, rs2)  == EncR(0, rs2, rs1, 0, rd, 51)
SUB(rd, rs1, rs2)  == EncR(32, rs2, rs1, 0, rd, 51)
LUI(rd, imm20)     == EncU(imm20, rd, 55)
AUIPC(rd, imm20)   == EncU(imm20, rd, 23)
LW(rd, imm, rs1)   == EncI(imm, rs1, 2, rd, 3)
LB(rd, imm, rs1)   == EncI(imm, rs1, 0, rd, 3)
LD(rd, imm, rs1)   == EncI(imm, rs1, 3, rd, 3)
SW(rs2, imm, rs1)  == EncS(imm, rs2, rs1, 2)
SH(rs2, imm, rs1)  == EncS(imm, rs2, rs1, 1)
BEQ(rs1, rs2, imm) == EncSB(imm, rs2, rs1, 0)
BNE(rs1, rs2, imm) == EncSB(imm, rs2, rs1, 1)
JAL(rd, imm)       == EncUJ(imm, rd)
JALR(rd, rs1, imm) == EncI(imm, rs1, 0, rd, 103)

\* the words of a program at TEXT_SEGMENT_START, then the data bytes
Image(text, data) ==
    [kind |-> "ok",
     code |-> [a \in {TEXT_SEGMENT_START + INSTRUCTION_SIZE * (i - 1) : i \in 1..Len(text)}
                     \cup DOMAIN data |->
                 IF a \in DOMAIN data THEN data[a]
                 ELSE text[((a - TEXT_SEGMENT_START) \div INSTRUCTION_SIZE) + 1]]]

\* the bytes of 0x12345678 at DATA_SEGMENT_START, least significant first
DataWord ==
    [a \in DATA_SEGMENT_START..(DATA_SEGMENT_START + 3) |->
        CASE a = DATA_SEGMENT_START -> 120
          [] a = DATA_SEGMENT_START + 1 -> 86
          [] a = DATA_SEGMENT_START + 2 -> 52
          [] OTHER -> 18]

AddiChain   == <<ADDI(5, 0, 10), ADDI(6, 5, 5), ADDI(7, 6, -3)>>
LoadUseProg == <<LW(5, 0, 3), ADDI(6, 5, 1)>>
LoadStore   == <<LW(5, 0, 3), SW(5, 8, 3), ADD(7, 5, 5)>>
LoadX0      == <<LW(0, 0, 3), ADDI(6, 0, 1)>>
BranchProg  == <<ADDI(5, 0, 1), BEQ(5, 5, 8), ADDI(6, 0, 99), ADDI(7, 0, 7)>>
JalProg     == <<JAL(1, 12), JAL(0, 12), ADDI(6, 0, 1), JALR(0, 1, 0), ADDI(7, 0, 7)>>
JalTail     == <<ADDI(6, 0, 1), JAL(1, 4)>>
TwoStores   == <<SW(10, 0, 3), SW(2, 4, 3)>>
StoreThenUse == <<SW(10, 4, 3), ADDI(6, 4, 1)>>
SwLw        == <<SW(2, 0, 3), LW(6, 0, 3)>>
SwLwFwd     == <<ADDI(5, 0, -1), SW(5, 8, 3), LW(6, 8, 3)>>
SwLwBase4   == <<ADD(4, 3, 0), ADDI(7, 0, 0), ADDI(7, 0, 0), ADDI(7, 0, 0),
                 SW(2, 4, 4), LW(6, 4, 4)>>
StoreHigh   == <<ADDI(5, 0, -4), SW(10, 0, 5)>>
LoadWrap    == <<LW(6, -2, 0)>>
LoadLast    == <<LW(6, 32, 2), ADDI(7, 6, 1)>>
LoadBeyond  == <<ADDI(5, 0, 3), LW(6, 36, 2), ADDI(7, 0, 7)>>
LoadDouble  == <<ADDI(5, 0, 3), LD(6, 0, 3)>>
ZeroDest    == <<ADDI(0, 0, 5), ADD(5, 0, 0), JALR(0, 5, 8)>>
HalfByte    == <<LUI(5, 11), ADDI(5, 5, -1075), SH(5, 0, 3), LB(6, 0, 3), LB(7, 1, 3)>>
CountDown   == <<ADDI(5, 0, 2), ADDI(5, 5, -1), BNE(5, 0, -4)>>
DataOnly    == <<>>
LoadUseLong == <<LW(5, 0, 3), ADDI(6, 5, 1), ADDI(7, 0, 1), ADDI(28, 0, 2)>>
JalrTwice   == <<ADDI(5, 0, 8), JALR(0, 5, 0), ADDI(5, 0, 64), JAL(0, -8)>>
BranchTwice == <<ADDI(5, 0, -2), ADDI(5, 5, -1), BNE(5, 0, -4), ADDI(7, 0, 7)>>
JalLoop     == <<JAL(1, 0)>>
LoadUseOlder == <<ADDI(5, 0, 10), LW(6, 0, 3), ADD(7, 5, 6)>>
AluSpread   == <<ADDI(5, 0, 10), ADDI(6, 0, 1), ADDI(7, 0, 2), SUB(28, 5, 6),
                 ADD(29, 5, 7)>>

Catalogue ==
    {Image(AddiChain, EmptyMap), Image(LoadUseProg, DataWord), Image(LoadStore, DataWord),
     Image(LoadX0, DataWord), Image(BranchProg, EmptyMap), Image(JalProg, EmptyMap),
     Image(JalTail, EmptyMap), Image(TwoStores, EmptyMap), Image(StoreThenUse, EmptyMap),
     Image(SwLw, EmptyMap), Image(SwLwFwd, EmptyMap), Image(SwLwBase4, EmptyMap),
     Image(StoreHigh, EmptyMap), Image(LoadWrap, DataWord), Image(LoadLast, EmptyMap),
     Image(LoadBeyond, EmptyMap), Image(LoadDouble, EmptyMap), Image(ZeroDest, EmptyMap),
     Image(HalfByte, EmptyMap), Image(CountDown, EmptyMap),
     Image(AluSpread, EmptyMap), Image(DataOnly, DataWord),
     Image(JalrTwice, EmptyMap), Image(LoadUseLong, DataWord),
     Image(BranchTwice, EmptyMap), Image(JalLoop, EmptyMap),
     Image(LoadUseOlder, DataWord)}

\* ALU instructions with register dependences among x5, x6 and x7
AluPool ==
    {ADDI(5, 0, 10), ADDI(6, 5, 5), SUB(7, 5, 6), LUI(6, 74565), XORI(5, 7, -1)}

RECURSIVE SeqsUpTo(_, _)
SeqsUpTo(S, n) ==
    IF n = 0 THEN {<<>>}
    ELSE LET shorter == SeqsUpTo(S, n - 1)
         IN  shorter \cup {Append(q, x) : q \in shorter, x \in S}

AluPrograms == {Image(t, EmptyMap) : t \in SeqsUpTo(AluPool, MaxAluLen) \ {<<>>}}

FailedInputs == {[kind |-> k, code |-> EmptyMap] : k \in {"empty", "parse", "assemble"}}

Inputs == Catalogue \cup AluPrograms \cup FailedInputs

NoImage == [kind |-> "none", code |-> EmptyMap]

(***************************************************************************)
(* The state machine.                                                      *)
(***************************************************************************)
\* the Simulator object held in the variables
Sim ==
    [PC |-> PC, registers |-> registers, dataMap |-> dataMap, textMap |-> textMap,
     pipeline |-> pipeline, instructionRegisters |-> instructionRegisters,
     forwardingStatus |-> forwardingStatus, uiResponse |-> uiResponse,
     running |-> running, isPipeline |-> isPipeline,
     isDataForwarding |-> isDataForwarding, stats |-> stats,
     registerDependencies |-> registerDependencies,
     branchPredictor |-> branchPredictor, instructionCount |-> instructionCount,
     logs |-> logs, retired |-> retired, ub |-> ub, accesses |-> accesses]

Install(s) ==
    /\ PC' = s.PC
    /\ registers' = s.registers
    /\ dataMap' = s.dataMap
    /\ textMap' = s.textMap
    /\ pipeline' = s.pipeline
    /\ instructionRegisters' = s.instructionRegisters
    /\ forwardingStatus' = s.forwardingStatus
    /\ uiResponse' = s.uiResponse
    /\ running' = s.running
    /\ isPipeline' = s.isPipeline
    /\ isDataForwarding' = s.isDataForwarding
    /\ stats' = s.stats
    /\ registerDependencies' = s.registerDependencies
    /\ branchPredictor' = s.branchPredictor
    /\ instructionCount' = s.instructionCount
    /\ logs' = s.logs
    /\ retired' = s.retired
    /\ ub' = s.ub
    /\ accesses' = s.accesses

Init ==
    /\ PC = Simulator0.PC
    /\ registers = Simulator0.registers
    /\ dataMap = Simulator0.dataMap
    /\ textMap = Simulator0.textMap
    /\ pipeline = Simulator0.pipeline
    /\ instructionRegisters = Simulator0.instructionRegisters
    /\ forwardingStatus = Simulator0.forwardingStatus
    /\ uiResponse = Simulator0.uiResponse
    /\ running = Simulator0.running
    /\ isPipeline = Simulator0.isPipeline
    /\ isDataForwarding = Simulator0.isDataForwarding
    /\ stats = Simulator0.stats
    /\ registerDependencies = Simulator0.registerDependencies
    /\ branchPredictor = Simulator0.branchPredictor
    /\ instructionCount = Simulator0.instructionCount
    /\ logs = Simulator0.logs
    /\ retired = Simulator0.retired
    /\ ub = Simulator0.ub
    /\ accesses = Simulator0.accesses
    /\ image = NoImage
    /\ stepCalls = 0
    /\ lastStep = "none"
    /\ runSteps = 0

\* loadProgram(input)
LoadProgram ==
    \E input \in Inputs :
        \E r \in {loadProgram(Sim, input)} :
            /\ Install(r.s)
            /\ image' = [input EXCEPT !.kind = IF r.ret THEN "ok" ELSE "failed"]
            /\ stepCalls' = 0
            /\ lastStep' = "none"
            /\ runSteps' = 0

\* step(); stepCalls counts the calls made since the program was loaded
Step ==
    /\ stepCalls < MaxStepCalls
    /\ ~ub
    /\ \E r \in {step(Sim)} :
           /\ Install(r.s)
           /\ lastStep' = IF r.ret THEN "true" ELSE "false"
           /\ stepCalls' = stepCalls + 1
    /\ runSteps' = 0
    /\ UNCHANGED image

\* run(); runSteps is the number of calls of step() the last run() made, 0
\* once step() has been called directly again
Run ==
    /\ stepCalls < MaxStepCalls
    /\ ~ub
    /\ \E r \in {run(Sim)} :
           /\ Install(r.s)
           /\ lastStep' = IF r.ret THEN "true" ELSE "false"
           /\ stepCalls' = stepCalls + r.steps
           /\ runSteps' = r.steps
    /\ UNCHANGED image

\* setEnvironment(pipeline, dataForwarding): the modes are chosen before a run
\* and not toggled during it (a toggle after a run is the toggle before the
\* next one: loadProgram keeps the two flags)
SetEnvironment ==
    /\ stepCalls = 0
    /\ \E pipe \in BOOLEAN, dataForwarding \in BOOLEAN :
          \E r \in {setEnvironment(Sim, pipe, dataForwarding)} : Install(r)
    /\ UNCHANGED <<image, stepCalls, lastStep, runSteps>>

Next == LoadProgram \/ Step \/ Run \/ SetEnvironment

Spec == Init /\ [][Next]_vars

\* setEnvironment(pipeline, dataForwarding) called while the loaded program is
\* running: the call a host is told not to make, which the class accepts
SetEnvironmentMidRun ==
    /\ image.kind = "ok" /\ running
    /\ stepCalls > 0 /\ stepCalls <= MaxToggleStep
    /\ \E pipe \in BOOLEAN, dataForwarding \in BOOLEAN :
          \E r \in {setEnvironment(Sim, pipe, dataForwarding)} : Install(r)
    /\ UNCHANGED <<image, stepCalls, lastStep, runSteps>>

NextAnyCall == Next \/ SetEnvironmentMidRun

\* the simulator under every sequence of calls, mid-run mode switches included
SpecAnyCall == Init /\ [][NextAnyCall]_vars

(***************************************************************************)
(* Properties.                                                             *)
(***************************************************************************)
\* the loaded program as loadProgram was given it
Loaded == [image EXCEPT !.kind = "ok"]
\* the number of instruction words of the loaded program
TextLen == Cardinality(TextPart(image.code))
\* the i-th instruction word of the loaded program
TextWord(i) == image.code[TEXT_SEGMENT_START + INSTRUCTION_SIZE * (i - 1)]

\* the simulator after the loaded program is run in the given modes
Ref(pipe, fwd) ==
    run(loadProgram(setEnvironment(Simulator0, pipe, fwd), Loaded).s).s

\* step() has returned false on the loaded program
RunEnded == image.kind = "ok" /\ lastStep = "false"
\* a run that ended by running out of text: no error, no step cap
CleanEnd(s) == ~s.running /\ s.logs \cap {400, 404} = {} /\ ~s.ub
\* every access of the history lies in [0, MEMORY_SIZE)
InRange(acc) ==
    \A i \in 1..Len(acc) :
        acc[i].address >= 0 /\ acc[i].address <= (MaxWord - acc[i].size) + 1
\* a slot that holds a record
IsRec(n) == n # NULL /\ n # DANGLING
\* the loaded program is the given text with the given data
Runs(text, data) == image.kind = "ok" /\ image.code = Image(text, data).code

\* C1: a program that makes no out-of-range access and is run to completion
\* ends with the same registers and the same data memory whether isPipeline is
\* true or false (the other run computed from the same image).
C1_PipelineEquivalence ==
    (RunEnded /\ 404 \notin logs /\ InRange(accesses)) =>
        LET other == Ref(~isPipeline, isDataForwarding)
        IN  (CleanEnd(other) /\ InRange(other.accesses)) =>
                (registers = other.registers /\ dataMap = other.dataMap)

\* C2: in pipelined mode, a program run to completion ends with the same
\* registers and the same data memory whether isDataForwarding is true or false.
C2_ForwardingEquivalence ==
    (RunEnded /\ isPipeline /\ 404 \notin logs) =>
        LET other == Ref(TRUE, ~isDataForwarding)
        IN  CleanEnd(other) =>
                (registers = other.registers /\ dataMap = other.dataMap)

\* C3: registers[0] is 0 in every reachable state: after construction, after
\* loadProgram and after every step() in any mode, also when an instruction
\* whose rd is 0 has retired.
C3_ZeroRegister == registers[0] = 0

\* C3 witness: addi x0,x0,5 of ZeroDest has retired at WRITEBACK
C3_ZeroDestRetired ==
    /\ Runs(ZeroDest, EmptyMap)
    /\ \E i \in 1..Len(retired) : retired[i] = TEXT_SEGMENT_START
    /\ registers[0] = 0

\* the record reads register reg as a source operand
Reads(node, reg) ==
    \/ node.instructionType \in {"R", "I", "S", "SB"} /\ node.rs1 = reg
    \/ node.instructionType \in {"R", "S", "SB"} /\ node.rs2 = reg
\* a load with a destination other than x0 is about to enter MEMORY and the
\* instruction fetched directly after it, which reads that destination, is
\* about to enter EXECUTE for the first time
LoadAhead ==
    /\ isPipeline /\ isDataForwarding /\ running
    /\ IsRec(pipeline["EXECUTE"]) /\ IsRec(pipeline["MEMORY"])
    /\ ~pipeline["EXECUTE"].stalled
    /\ pipeline["MEMORY"].opcode = 3 /\ pipeline["MEMORY"].rd # 0
    /\ pipeline["EXECUTE"].PC = pipeline["MEMORY"].PC + INSTRUCTION_SIZE
    /\ Reads(pipeline["EXECUTE"], pipeline["MEMORY"].rd)
\* the consumer of a load-use hazard is waiting in EXECUTE
HeldAtEX ==
    /\ isPipeline /\ isDataForwarding /\ running
    /\ IsRec(pipeline["EXECUTE"]) /\ pipeline["EXECUTE"].stalled
\* a call of step()
StepTaken == stepCalls' = stepCalls + 1
\* the stall cycle: the consumer stays in EXECUTE, the records of DECODE and
\* FETCH stay, MEMORY gets a bubble, one stall is counted
StallCycle ==
    /\ IsRec(pipeline'["EXECUTE"])
    /\ pipeline'["EXECUTE"].PC = pipeline["EXECUTE"].PC
    /\ pipeline'["EXECUTE"].stalled
    /\ pipeline'["MEMORY"] = NULL
    /\ stats'.stallBubbles = stats.stallBubbles + 1
    /\ \A st \in {"DECODE", "FETCH"} :
          IsRec(pipeline[st]) =>
              IsRec(pipeline'[st]) /\ pipeline'[st].PC = pipeline[st].PC
\* the datapath registers once the loop of the cycle that starts in this state
\* has processed WRITEBACK, MEMORY and EXECUTE: RA and RB are the operands the
\* record in EXECUTE used
AfterExecuteTurn ==
    ProcessStage(ProcessStage(ProcessStage(BeginCycle(Sim), "WRITEBACK"),
                              "MEMORY"), "EXECUTE").s.instructionRegisters
\* the cycle after it: the consumer executes, its operand for the destination
\* of the load (which retires in this cycle) being the loaded value, and no
\* further stall is counted
ResumeCycle ==
    /\ IsRec(pipeline'["MEMORY"])
    /\ pipeline'["MEMORY"].PC = pipeline["EXECUTE"].PC
    /\ stats'.stallBubbles = stats.stallBubbles
    /\ \E ld \in {pipeline["WRITEBACK"]}, n \in {pipeline["EXECUTE"]} :
          (IsRec(ld) /\ ld.opcode = 3 /\ ld.rd # 0) =>
             /\ (n.instructionType \in {"R", "I"} /\ n.rs1 = ld.rd) =>
                   AfterExecuteTurn.RA = registers'[ld.rd]
             /\ (n.instructionType = "R" /\ n.rs2 = ld.rd) =>
                   AfterExecuteTurn.RB = registers'[ld.rd]

\* C4: pipelined, forwarding on: an instruction that directly follows a load
\* (destination other than x0) and reads its destination is held in EXECUTE for
\* exactly one cycle, in which DECODE and FETCH keep their records, MEMORY gets a
\* bubble and stallBubbles grows by exactly 1; it then executes with the loaded
\* value, and lw x5,0(x3); addi x6,x5,1 ends with x6 = x5 + 1 after one stall
\* (a store that follows the load likewise stores the loaded value).
C4_LoadUseStall ==
    /\ [][(StepTaken /\ LoadAhead) => StallCycle]_vars
    /\ [][(StepTaken /\ HeldAtEX) => ResumeCycle]_vars
    /\ []((Runs(LoadUseProg, DataWord) /\ isPipeline /\ isDataForwarding /\ RunEnded) =>
            /\ registers[5] = 305419896
            /\ registers[6] = registers[5] + 1
            /\ stats.stallBubbles = 1)
    /\ []((Runs(LoadStore, DataWord) /\ isPipeline /\ isDataForwarding /\ RunEnded) =>
            /\ LoadValue("lw", DATA_SEGMENT_START + 8, dataMap) = registers[5]
            /\ registers[5] = 305419896
            /\ stats.stallBubbles = 1)

\* C4 witness: the load-use program has ended after its one stall
C4_LoadUseRun ==
    /\ Runs(LoadUseProg, DataWord) /\ isPipeline /\ isDataForwarding /\ RunEnded
    /\ stats.stallBubbles = 1
    /\ registers[6] = 305419897
    /\ retired = <<0, 4>>

\* the loaded program is straight-line ALU code: R-type, I-type ALU and U-type
AluOnly ==
    /\ image.kind = "ok"
    /\ TextLen >= 1
    /\ \A i \in 1..TextLen :
          LET w == TextWord(i)
          IN  \/ classifyInstructions(w) = "R"
              \/ classifyInstructions(w) = "I" /\ w % 128 = 19
              \/ classifyInstructions(w) = "U"

\* C5: pipelined, forwarding on: a straight-line program of n ALU instructions
\* is retired after exactly n + 4 calls of step() (the calls before return true,
\* that one returns false), with stallBubbles = 0 and totalCycles = n + 4, and
\* the registers hold the sequentially computed values; the 3-instruction ADDI
\* chain ends after 7 cycles with x5 = 10, x6 = 15, x7 = 12.
C5_AluThroughput ==
    (AluOnly /\ isPipeline /\ isDataForwarding) =>
        /\ (stepCalls >= 1 /\ stepCalls < TextLen + 4) => (lastStep = "true" /\ running)
        /\ stepCalls >= TextLen + 4 =>
              /\ lastStep = "false" /\ ~running
              /\ Len(retired) = TextLen
              /\ stats.stallBubbles = 0
              /\ stats.totalCycles = TextLen + 4
              /\ registers = Ref(FALSE, FALSE).registers
        /\ (Runs(AddiChain, EmptyMap) /\ stepCalls >= 7) =>
              (registers[5] = 10 /\ registers[6] = 15 /\ registers[7] = 12
               /\ stats.totalCycles = 7)

\* C5 witness: the ADDI chain after its seventh cycle
C5_ChainDone ==
    /\ Runs(AddiChain, EmptyMap) /\ isPipeline /\ isDataForwarding
    /\ stepCalls = 7 /\ lastStep = "false"
    /\ registers[7] = 12 /\ stats.stallBubbles = 0

\* C6: pipelined, forwarding off: the ADDI chain run to completion counts exactly
\* 4 stall cycles more than the forwarding-on run (stallBubbles = 4, totalCycles
\* larger by 4) and ends with x5 = 10, x6 = 15, x7 = 12.
C6_ChainStallsFour ==
    (Runs(AddiChain, EmptyMap) /\ isPipeline /\ ~isDataForwarding /\ RunEnded) =>
        /\ stats.stallBubbles = 4
        /\ stats.totalCycles = Ref(TRUE, TRUE).stats.totalCycles + 4
        /\ registers[5] = 10 /\ registers[6] = 15 /\ registers[7] = 12

\* C6 as stated: exactly 2 stall cycles more than the forwarding-on run.
C6_ChainStallsTwo ==
    (Runs(AddiChain, EmptyMap) /\ isPipeline /\ ~isDataForwarding /\ RunEnded) =>
        /\ stats.stallBubbles = 2
        /\ stats.totalCycles = Ref(TRUE, TRUE).stats.totalCycles + 2
        /\ registers[5] = 10 /\ registers[6] = 15 /\ registers[7] = 12

\* C6 witness: the chain has ended with forwarding off
C6_ChainDoneNoForwarding ==
    /\ Runs(AddiChain, EmptyMap) /\ isPipeline /\ ~isDataForwarding /\ RunEnded
    /\ stats.dataHazardStalls = 4
    /\ retired = <<0, 4, 8>>

\* C7: pipelined, predictor initially not-taken: addi x5,x0,1; beq x5,x5,+8;
\* addi x6,x0,99; addi x7,x0,7 ends with exactly one flush and one control
\* hazard, the squashed addi x6 without effect (x6 = 0), and execution continued
\* at the branch target (x7 = 7).
C7_TakenBranchMispredict ==
    (Runs(BranchProg, EmptyMap) /\ isPipeline /\ RunEnded) =>
        /\ stats.controlHazards = 1
        /\ stats.pipelineFlushes = 1
        /\ registers[6] = 0
        /\ registers[7] = 7

\* the word is a JAL, or a JALR, with a destination other than x0
IsLink(w) ==
    /\ (w % 128 = 111 \/ (w % 128 = 103 /\ Bits(w, 12, 3) = 0))
    /\ Bits(w, 7, 5) # 0

\* C8: when a JAL or JALR fetched at P with rd other than x0 retires, register
\* rd holds P + 4, in pipelined and in non-pipelined mode.
C8_LinkRegister ==
    [][(StepTaken /\ Len(retired') = Len(retired) + 1
        /\ retired'[Len(retired')] \in DOMAIN textMap
        /\ IsLink(textMap[retired'[Len(retired')]])) =>
            registers'[Bits(textMap[retired'[Len(retired')]], 7, 5)]
                = Add32(retired'[Len(retired')], INSTRUCTION_SIZE)]_vars

\* the access lies outside [0, MEMORY_SIZE)
OutOfRange(a) == ~InRange(<<a>>)

\* C9: a step in which a load or a store reaches memory with a byte range that
\* is not inside [0, MEMORY_SIZE) (the sum address + size taken without
\* wrapping) returns false, leaves running false and the data image untouched.
C9_BoundsChecked ==
    [][(StepTaken /\ Len(accesses') = Len(accesses) + 1
        /\ OutOfRange(accesses'[Len(accesses')])) =>
            (lastStep' = "false" /\ ~running' /\ dataMap' = dataMap)]_vars

\* the loaded program ends with sw rs2,imm(rs1); lw rd,imm(rs1), rd a register
\* other than x0, rs1 and rs2
EndsWithSwLw ==
    /\ image.kind = "ok"
    /\ TextLen >= 2
    /\ LET sw == TextWord(TextLen - 1)
           lw == TextWord(TextLen)
       IN  /\ sw % 128 = 35 /\ Bits(sw, 12, 3) = 2
           /\ lw % 128 = 3 /\ Bits(lw, 12, 3) = 2
           /\ Bits(sw, 15, 5) = Bits(lw, 15, 5)
           /\ ImmS(sw) = ImmI(lw)
           /\ Bits(lw, 7, 5) \notin {0, Bits(sw, 15, 5), Bits(sw, 20, 5)}

\* C10: a program that ends with an SW of W to an aligned address A directly
\* followed by an LW from A ends with W in the load's destination register and
\* byte i of W (least significant first) at A + i, in every mode.
C10_StoreLoadRoundTrip ==
    (EndsWithSwLw /\ RunEnded /\ 404 \notin logs) =>
        LET sw == TextWord(TextLen - 1)
            W  == registers[Bits(sw, 20, 5)]
            A  == Add32(registers[Bits(sw, 15, 5)], ImmS(sw))
        IN  A % 4 = 0 =>
                /\ registers[Bits(TextWord(TextLen), 7, 5)] = W
                /\ \A i \in 0..3 : MapGet(dataMap, Add32(A, i)) = Bits(W, 8 * i, 8)

\* every latch slot is empty
SlotsEmpty == \A st \in Stages : pipeline[st] = NULL
\* PC maps to an entry of the text image
PCInText == PC \in DOMAIN textMap

\* C11: when the last step() returned false and no runtime error was logged,
\* every latch slot is empty and PC maps to no entry of the text image: no
\* fetched record is left un-retired in a slot of a run marked complete.
C11_FalseMeansRetired ==
    (lastStep = "false" /\ 404 \notin logs) => (SlotsEmpty /\ ~PCInText)

\* C12: whenever, after a step(), every latch slot is empty and PC maps to no
\* entry of the text image, running is false and that step() returned false,
\* whatever the text image holds (an empty one included).
C12_EmptyMeansComplete ==
    (lastStep # "none" /\ SlotsEmpty /\ ~PCInText) => (~running /\ lastStep = "false")

\* the run ended naturally: step() returned false with no error logged, every
\* slot empty and PC past the text image
Terminated == lastStep = "false" /\ 404 \notin logs /\ SlotsEmpty /\ ~PCInText

\* C13: a step() made after natural termination returns false, logs no 404 and
\* leaves PC, the registers, the data memory, the latch slots, the dependency
\* table, totalCycles and instructionsExecuted as they were; the state it leaves
\* is again one of natural termination, so the same holds of every further call.
C13_StepPastEnd ==
    [][(StepTaken /\ Terminated) =>
          /\ lastStep' = "false"
          /\ 404 \notin logs'
          /\ UNCHANGED <<PC, registers, dataMap, pipeline, registerDependencies>>
          /\ stats'.totalCycles = stats.totalCycles
          /\ stats'.instructionsExecuted = stats.instructionsExecuted
          /\ Terminated']_vars

\* C13 witness: the ADDI chain two calls of step() after the one that ended it
C13_SteppedPastEnd ==
    /\ Runs(AddiChain, EmptyMap) /\ isPipeline /\ isDataForwarding
    /\ stepCalls = 9 /\ Terminated
    /\ stats.totalCycles = 7 /\ registers[7] = 12

\* C14: run() ends for every program after at most MAX_STEPS calls of step();
\* when the cap stopped it (its last step() still returned true), a 400 log is
\* recorded and uiResponse.isProgramTerminated is set.
C14_RunCapped ==
    runSteps > 0 =>
        /\ runSteps <= MAX_STEPS
        /\ lastStep = "true" => (400 \in logs /\ uiResponse.isProgramTerminated)

\* the cycle that starts in this state raises a runtime_error: a fetch at a PC
\* outside the memory range or of a word without encoding, an ld at EXECUTE, a
\* load out of range at MEMORY, or a record of no type at WRITEBACK
Raises == advancePipeline(Sim).err

\* C15: a runtime error raised inside a cycle does not escape step(): the call
\* returns false, running is false, a 404 log is present and
\* uiResponse.isProgramTerminated is true.
C15_ErrorCaught ==
    [][(StepTaken /\ Raises /\ ~ub') =>
          /\ lastStep' = "false"
          /\ ~running'
          /\ 404 \in logs'
          /\ uiResponse'.isProgramTerminated]_vars

\* C15 witness: the ld of LoadDouble has raised its error at EXECUTE
C15_LdRejected ==
    /\ Runs(LoadDouble, EmptyMap) /\ lastStep = "false" /\ 404 \in logs
    /\ ~running /\ uiResponse.isProgramTerminated
    /\ IsRec(pipeline["EXECUTE"]) /\ pipeline["EXECUTE"].PC = 4

\* step() has halted the loaded program on a runtime error
Halted == image.kind = "ok" /\ lastStep = "false" /\ 404 \in logs

\* C16: once step() has halted on a runtime error, every later step() returns
\* false and changes no register, no byte of the data memory and not PC.
C16_HaltedStaysHalted ==
    [][(StepTaken /\ Halted) =>
          (lastStep' = "false" /\ UNCHANGED <<registers, dataMap, PC>>)]_vars

\* C17: after a loadProgram that failed (empty input, parse failure, assembly
\* failure: it returned false) all five latch slots and the dependency table
\* are empty, whatever state the call was made in.
C17_FailedLoadCreatesNothing ==
    (image.kind = "failed" /\ lastStep = "none" /\ ~ub) =>
        (SlotsEmpty /\ registerDependencies = <<>>)

\* C17 witness: a load has failed on a simulator switched to non-pipelined mode
C17_LoadFailed ==
    /\ image.kind = "failed" /\ lastStep = "none" /\ ~ub
    /\ ~isPipeline /\ logs = {404} /\ SlotsEmpty

\* the record the step leaves in slot st is marked stalled: it was held there
HeldIn(st) == IsRec(pipeline'[st]) /\ pipeline'[st].stalled

\* C18: in every cycle in which a record is stalled, stallBubbles grows by
\* exactly one, also when several records are held in the same cycle, and every
\* held record is the one that was in that slot before the cycle.
C18_OneBubblePerStallCycle ==
    [][(StepTaken /\ 404 \notin logs' /\ \E st \in Stages : HeldIn(st)) =>
          /\ stats'.stallBubbles = stats.stallBubbles + 1
          /\ \A st \in Stages :
                HeldIn(st) => (IsRec(pipeline[st]) /\ pipeline[st].PC = pipeline'[st].PC)]_vars

\* C18 witness: the load-use stall of LoadUseLong has held the records of
\* EXECUTE, DECODE and FETCH in one cycle, counted once
C18_ThreeHeld ==
    /\ Runs(LoadUseLong, DataWord) /\ isPipeline /\ isDataForwarding
    /\ \A st \in {"EXECUTE", "DECODE", "FETCH"} : IsRec(pipeline[st]) /\ pipeline[st].stalled
    /\ stats.stallBubbles = 1

\* C19: after every call of step(), in every mode and for every loaded image,
\* totalCycles is at least instructionsExecuted.
C19_CyclesCoverInstructions ==
    (image.kind = "ok" /\ lastStep # "none") =>
        stats.totalCycles >= stats.instructionsExecuted

\* C20: while a run is in progress (a program is loaded, step() has been called
\* and running is true) a call of setEnvironment leaves isPipeline and
\* isDataForwarding, the modes the next step() uses, as they were.
C20_ModeFixedDuringRun ==
    [][(image.kind = "ok" /\ running /\ stepCalls > 0 /\ stepCalls' = stepCalls) =>
          (isPipeline' = isPipeline /\ isDataForwarding' = isDataForwarding)]_vars

\* an instruction other than the record itself has an entry for register reg in
\* the dependency table: its result is not yet in the register file
Pending(node, reg) ==
    \E i \in 1..Len(registerDependencies) :
        registerDependencies[i].pc # node.PC /\ registerDependencies[i].reg = reg
\* a call of step() in which the record of type ty waiting in EXECUTE executes
\* and moves on to MEMORY
Executes(ty) ==
    /\ StepTaken /\ ~ub /\ 404 \notin logs
    /\ IsRec(pipeline["EXECUTE"])
    /\ pipeline["EXECUTE"].stage = "EXECUTE"
    /\ pipeline["EXECUTE"].instructionType \in ty
    /\ IsRec(pipeline'["MEMORY"])
    /\ pipeline'["MEMORY"].PC = pipeline["EXECUTE"].PC
    /\ pipeline'["MEMORY"].stage = "MEMORY"

\* C21: a conditional branch that executes while no older instruction still owes
\* a value to rs1 or rs2 (the register file holds their current values) is taken
\* (RY = 1) exactly when its comparison holds between registers[rs1] and
\* registers[rs2], and when it is taken and nothing was fetched after it in the
\* cycle, PC is recordPC + the SB immediate; in every mode.
C21_BranchCondition ==
    [][(/\ Executes({"SB"})
        /\ ~Pending(pipeline["EXECUTE"], pipeline["EXECUTE"].rs1)
        /\ ~Pending(pipeline["EXECUTE"], pipeline["EXECUTE"].rs2)) =>
          \E b \in {pipeline["EXECUTE"]} :
             \E taken \in {BranchTaken(SBTypeName(b.opcode, b.func3),
                                       registers[b.rs1], registers[b.rs2])} :
                /\ instructionRegisters'.RY = Bool(taken)
                /\ (taken /\ pipeline'["DECODE"] = NULL) =>
                       PC' = Add32(b.PC, ImmSB(b.instruction))]_vars

\* a call of step() in which the branch or jump waiting in EXECUTE resolves as
\* a mispredict
Mispredicts ==
    /\ isPipeline
    /\ Executes({"SB", "UJ", "I"})
    /\ (pipeline["EXECUTE"].isBranch \/ pipeline["EXECUTE"].isJump)
    /\ stats'.controlHazards = stats.controlHazards + 1

\* C22: after a mispredicted branch or jump has resolved at EXECUTE, PC is the
\* resolved address: recordPC + imm for a taken branch (one whose rs2 was not
\* forwarded into RB, the case of C21) and for jal, the jalr target
\* (registers[rs1] + imm) & ~1 (rs1 not owed by an older instruction), and
\* recordPC + 4 for a branch that is not taken.
C22_ResolvedPC ==
    [][Mispredicts =>
          \E b \in {pipeline["EXECUTE"]} :
             PC' = CASE b.instructionType = "SB" ->
                          IF instructionRegisters'.RY # 1
                          THEN Add32(b.PC, INSTRUCTION_SIZE)
                          ELSE IF forwardingStatus'.rbForwarded THEN PC'
                          ELSE Add32(b.PC, ImmSB(b.instruction))
                     [] b.instructionType = "UJ" -> Add32(b.PC, ImmUJ(b.instruction))
                     [] OTHER ->
                          IF Pending(b, b.rs1) THEN PC'
                          ELSE Add32(registers[b.rs1], ImmI(b.instruction))
                               - (Add32(registers[b.rs1], ImmI(b.instruction)) % 2)]_vars

\* a call of step() in which the jalr waiting in EXECUTE, predicted taken and
\* redirected at fetch to the target the BTB held, resolves to another target
StaleTarget ==
    /\ isPipeline
    /\ Executes({"I"})
    /\ pipeline["EXECUTE"].opcode = 103
    /\ getPHT(branchPredictor, pipeline["EXECUTE"].PC)
    /\ isInBTB(branchPredictor, pipeline["EXECUTE"].PC)
    /\ getTarget(branchPredictor, pipeline["EXECUTE"].PC)
          # getTarget(branchPredictor', pipeline["EXECUTE"].PC)

\* C23: a jalr predicted taken towards a BTB target other than its actual target
\* is a mispredict at EXECUTE: controlHazards grows by one and the records of
\* FETCH and DECODE are flushed (neither moves on: EXECUTE and DECODE are left
\* empty, FETCH holds at most the record newly seeded at the resolved PC), so
\* that nothing fetched from the stale target goes on to retire.
C23_StaleTargetFlushed ==
    [][StaleTarget =>
          /\ stats'.controlHazards = stats.controlHazards + 1
          /\ pipeline'["EXECUTE"] = NULL
          /\ pipeline'["DECODE"] = NULL
          /\ pipeline'["FETCH"] \in {NULL, InstructionNode(PC')}]_vars

\* a call of step() in which the store waiting in MEMORY writes the data image
StoreWrites ==
    /\ StepTaken /\ ~ub /\ 404 \notin logs
    /\ IsRec(pipeline["MEMORY"])
    /\ pipeline["MEMORY"].stage = "MEMORY"
    /\ pipeline["MEMORY"].instructionType = "S"
    /\ Len(accesses') = Len(accesses) + 1
    /\ accesses'[Len(accesses')].kind = "store"
    /\ accesses'[Len(accesses')].pc = pipeline["MEMORY"].PC

\* C24: the bytes a store writes at MEMORY are the low bytes of its own rs2:
\* when no other instruction owes a value to rs2 (the register file holds what
\* the store read at DECODE), byte i of the range written is byte i of
\* registers[rs2], whatever was decoded after the store.
C24_StoreOwnValue ==
    [][(StoreWrites /\ ~Pending(pipeline["MEMORY"], pipeline["MEMORY"].rs2)) =>
          \E acc \in {accesses'[Len(accesses')]} :
             \A i \in 0..(acc.size - 1) :
                MapGet(dataMap', Add32(acc.address, i))
                   = Bits(registers[pipeline["MEMORY"].rs2], 8 * i, 8)]_vars

\* C25: no entry of the dependency table belongs to an S-type or SB-type
\* instruction, whatever bits 11:7 of its word hold.
C25_NoStoreBranchDependency ==
    \A i \in 1..Len(registerDependencies) :
        registerDependencies[i].pc \in DOMAIN textMap =>
            classifyInstructions(textMap[registerDependencies[i].pc]) \notin {"S", "SB"}

\* C26: in every reachable state no two entries of the dependency table have
\* the same pc, and no entry has destination register 0.
C26_DependencyTableWellFormed ==
    /\ \A i, j \in 1..Len(registerDependencies) :
          registerDependencies[i].pc = registerDependencies[j].pc => i = j
    /\ \A i \in 1..Len(registerDependencies) : registerDependencies[i].reg # 0

\* C26 witness: the jal of JalLoop, which jumps to itself, is decoded again
\* while the entry of its previous instance is still in the table: one entry
\* for its pc, and two instances of it in flight
C26_SamePcInFlight ==
    /\ Runs(JalLoop, EmptyMap) /\ isPipeline
    /\ IsRec(pipeline["EXECUTE"]) /\ IsRec(pipeline["MEMORY"])
    /\ pipeline["EXECUTE"].PC = pipeline["MEMORY"].PC
    /\ Len(registerDependencies) = 1
    /\ registerDependencies[1].reg = 1

\* the dependency table once the loop of the cycle that starts in this state
\* has processed the WRITEBACK slot, before it turns to MEMORY, EXECUTE, DECODE
AfterWritebackTurn ==
    ProcessStage(BeginCycle(Sim), "WRITEBACK").s.registerDependencies

\* C27: a record that performs WRITEBACK has its dependency entry removed in
\* that cycle: the table holds no entry for its pc once the WRITEBACK turn of
\* the loop is over (before the EXECUTE and DECODE turns), and after the step
\* an entry for the pc of a record retired in it can only be that of a new
\* instance of the instruction, decoded in the same cycle.
C27_EntryRemovedAtWriteback ==
    /\ []((IsRec(pipeline["WRITEBACK"]) /\ pipeline["WRITEBACK"].stage = "WRITEBACK"
           /\ ~ub) =>
             \A i \in 1..Len(AfterWritebackTurn) :
                AfterWritebackTurn[i].pc # pipeline["WRITEBACK"].PC)
    /\ [][StepTaken =>
             \A k \in (Len(retired) + 1)..Len(retired') :
                \A i \in 1..Len(registerDependencies') :
                   registerDependencies'[i].pc = retired'[k] =>
                      /\ registerDependencies'[i].stage = "DECODE"
                      /\ IsRec(pipeline'["EXECUTE"])
                      /\ pipeline'["EXECUTE"].PC = retired'[k]]_vars

\* C27 witness: the first addi of the ADDI chain has retired in the fifth
\* cycle: its entry is gone, those of the two younger instructions remain
C27_ProducerRetired ==
    /\ Runs(AddiChain, EmptyMap) /\ isPipeline /\ isDataForwarding
    /\ retired = <<0>>
    /\ Len(registerDependencies) = 2
    /\ registerDependencies[1].pc = 4 /\ registerDependencies[2].pc = 8

\* C28: after every call of step(), ended normally or halted by a runtime
\* error, every slot that holds a record holds one whose stage field is the
\* slot.
C28_StageMatchesSlot ==
    lastStep # "none" =>
        \A st \in Stages : IsRec(pipeline[st]) => pipeline[st].stage = st

\* a call of step() in which the record at WRITEBACK writes register rd and the
\* record waiting in DECODE, whose rs1 is rd, is decoded and moves to EXECUTE
WritebackMeetsDecode ==
    /\ StepTaken /\ ~ub /\ 404 \notin logs /\ 404 \notin logs'
    /\ IsRec(pipeline["WRITEBACK"])
    /\ pipeline["WRITEBACK"].stage = "WRITEBACK"
    /\ pipeline["WRITEBACK"].instructionType \in {"R", "I", "U", "UJ"}
    /\ pipeline["WRITEBACK"].rd # 0
    /\ IsRec(pipeline["DECODE"])
    /\ pipeline["DECODE"].stage = "DECODE"
    /\ pipeline["DECODE"].instructionType \in {"R", "I", "S", "SB"}
    /\ Bits(pipeline["DECODE"].instruction, 15, 5) = pipeline["WRITEBACK"].rd
    /\ IsRec(pipeline'["EXECUTE"])
    /\ pipeline'["EXECUTE"].PC = pipeline["DECODE"].PC
    /\ pipeline'["EXECUTE"].stage = "EXECUTE"
    /\ ~pipeline'["EXECUTE"].stalled

FreshAtEX ==
    /\ StepTaken /\ ~ub /\ 404 \notin logs /\ 404 \notin logs'
    /\ isPipeline
    /\ IsRec(pipeline["EXECUTE"])
    /\ pipeline["EXECUTE"].stage = "EXECUTE"
    /\ ~pipeline["EXECUTE"].stalled

\* C30: what EXECUTE does with a record in cycle t is decided by the dependency
\* table as it was when the cycle began: the record is held for a load-use
\* hazard exactly as that table says, and when it executes its result RY is
\* the one computed from the operands forwarded out of that table, whatever
\* WRITEBACK and MEMORY did to the table earlier in the cycle.
C30_ForwardingReadsSnapshot ==
    /\ [][(FreshAtEX /\ LoadUse(pipeline["EXECUTE"], registerDependencies)) =>
             /\ IsRec(pipeline'["EXECUTE"])
             /\ pipeline'["EXECUTE"].PC = pipeline["EXECUTE"].PC
             /\ pipeline'["EXECUTE"].stalled
             /\ stats'.stallBubbles = stats.stallBubbles + 1]_vars
    /\ [][(isPipeline /\ Executes({"R", "I", "S", "SB", "U", "UJ"})) =>
             instructionRegisters'.RY =
                executeInstruction(pipeline["EXECUTE"],
                    applyDataForwarding(Sim, pipeline["EXECUTE"],
                                        registerDependencies).instructionRegisters,
                    PC).ir.RY]_vars

\* C30 witness: sub x28,x5,x6 of AluSpread has executed in the cycle in which
\* addi x6,x0,1 retired: x6 was forwarded from the entry WRITEBACK erased
\* earlier in that cycle
C30_ForwardedFromErased ==
    /\ Runs(AluSpread, EmptyMap) /\ isPipeline /\ isDataForwarding
    /\ IsRec(pipeline["MEMORY"]) /\ pipeline["MEMORY"].PC = 12
    /\ retired = <<0, 4>>
    /\ forwardingStatus.rbForwarded
    /\ instructionRegisters.RY = 9
    /\ \A i \in 1..Len(registerDependencies) : registerDependencies[i].pc # 4

\* the dependency table deps holds an entry of another instruction, in stage
\* EXECUTE or MEMORY, for a register the record reads
Owed(node, deps) ==
    \E i \in 1..Len(deps) :
        /\ deps[i].pc # node.PC
        /\ deps[i].stage \in {"EXECUTE", "MEMORY"}
        /\ (ReadsRs1(node, deps[i].reg) \/ ReadsRs2(node, deps[i].reg))
\* a call of step() that raises no error, in which the record waiting in DECODE
\* is decoded and moves on to EXECUTE
Decodes ==
    /\ StepTaken /\ ~ub /\ 404 \notin logs /\ 404 \notin logs'
    /\ IsRec(pipeline["DECODE"])
    /\ pipeline["DECODE"].stage = "DECODE"
    /\ IsRec(pipeline'["EXECUTE"])
    /\ pipeline'["EXECUTE"].PC = pipeline["DECODE"].PC
    /\ pipeline'["EXECUTE"].stage = "EXECUTE"
    /\ ~pipeline'["EXECUTE"].stalled
\* the record held in DECODE waits for the record now in WRITEBACK and for no
\* other: every entry it is owed a register by is that of the WRITEBACK record
WaitsForWriteback ==
    /\ StepTaken /\ ~ub /\ 404 \notin logs /\ 404 \notin logs'
    /\ IsRec(pipeline["DECODE"])
    /\ pipeline["DECODE"].stage = "DECODE"
    /\ pipeline["DECODE"].stalled
    /\ IsRec(pipeline["WRITEBACK"])
    /\ pipeline["WRITEBACK"].stage = "WRITEBACK"
    /\ Owed(pipeline["DECODE"], registerDependencies)
    /\ ~Owed(pipeline["DECODE"],
             SelectSeq(registerDependencies,
                       LAMBDA dep : dep.pc # pipeline["WRITEBACK"].PC))
\* the record that retires in this step writes register reg
Commits(reg) ==
    /\ IsRec(pipeline["WRITEBACK"])
    /\ pipeline["WRITEBACK"].stage = "WRITEBACK"
    /\ pipeline["WRITEBACK"].instructionType \in {"R", "I", "U", "UJ"}
    /\ pipeline["WRITEBACK"].rd = reg
    /\ reg # 0
\* the operands the decoded record carries to EXECUTE are the values just
\* committed: RA for rs1; RB, or RM for a store, for rs2
CarriesCommitted ==
    \E n \in {pipeline'["EXECUTE"]} :
        /\ (n.instructionType \in {"R", "I", "S", "SB"} /\ Commits(n.rs1)) =>
              instructionRegisters'.RA = registers'[n.rs1]
        /\ (n.instructionType \in {"R", "SB"} /\ Commits(n.rs2)) =>
              instructionRegisters'.RB = registers'[n.rs2]
        /\ (n.instructionType = "S" /\ Commits(n.rs2)) =>
              instructionRegisters'.RM = registers'[n.rs2]

\* C31: pipelined, forwarding off: a record never moves from DECODE to EXECUTE
\* while an entry of another instruction in stage EXECUTE or MEMORY names one of
\* its source registers; a record held in DECODE moves on in the cycle in which
\* the producer it waits for performs WRITEBACK; and the operands it then
\* carries to EXECUTE are the values the producer committed.
C31_RawStallUntilWriteback ==
    /\ [][(isPipeline /\ ~isDataForwarding /\ Decodes) =>
             ~Owed(pipeline'["EXECUTE"], registerDependencies')]_vars
    /\ [][(isPipeline /\ ~isDataForwarding /\ WaitsForWriteback) => Decodes]_vars
    /\ [][(isPipeline /\ ~isDataForwarding /\ Decodes) => CarriesCommitted]_vars

\* C32: pipelined, forwarding off: dataHazards, stallBubbles and
\* dataHazardStalls are equal in every reachable state (each stall cycle counts
\* in all three).
C32_StallCountersEqual ==
    (isPipeline /\ ~isDataForwarding) =>
        /\ stats.dataHazards = stats.stallBubbles
        /\ stats.stallBubbles = stats.dataHazardStalls

\* C32 witness: the ADDI chain has ended with forwarding off after its four
\* stall cycles, each counted in the three counters
C32_FourStallsCounted ==
    /\ Runs(AddiChain, EmptyMap) /\ isPipeline /\ ~isDataForwarding /\ RunEnded
    /\ stats.dataHazards = 4 /\ stats.stallBubbles = 4 /\ stats.dataHazardStalls = 4

\* C33: with isPipeline false at most one slot holds a record in every
\* reachable state, a record appears in FETCH only in a cycle in which the
\* record before it retires at WRITEBACK, and stallBubbles, dataHazards,
\* controlHazards and pipelineFlushes stay 0.
C33_OneRecordAtATime ==
    /\ [](~isPipeline =>
            /\ Cardinality({st \in Stages : pipeline[st] # NULL}) <= 1
            /\ stats.stallBubbles = 0 /\ stats.dataHazards = 0
            /\ stats.controlHazards = 0 /\ stats.pipelineFlushes = 0)
    /\ [][(~isPipeline /\ StepTaken /\ 404 \notin logs' /\ IsRec(pipeline'["FETCH"])) =>
             /\ IsRec(pipeline["WRITEBACK"])
             /\ retired' = Append(retired, pipeline["WRITEBACK"].PC)]_vars

\* C33 witness: unpipelined, the first addi of the ADDI chain has retired in
\* the fifth cycle and the second has been placed in FETCH, alone
C33_SecondPlaced ==
    /\ Runs(AddiChain, EmptyMap) /\ ~isPipeline
    /\ stepCalls = 5 /\ retired = <<0>>
    /\ pipeline["FETCH"] = InstructionNode(4)
    /\ \A st \in Stages \ {"FETCH"} : pipeline[st] = NULL

\* the slot a record of slot st moves to
NextSlot(st) ==
    CASE st = "FETCH" -> "DECODE" [] st = "DECODE" -> "EXECUTE"
      [] st = "EXECUTE" -> "MEMORY" [] OTHER -> "WRITEBACK"
\* the record of slot st is one the step has to keep: it does not retire, it is
\* not in FETCH or DECODE when a mispredict flushes them, and it is not a FETCH
\* record whose fetch finds no instruction (the fetch that clears running)
Kept(st) ==
    /\ IsRec(pipeline[st])
    /\ st # "WRITEBACK"
    /\ ~(st \in {"FETCH", "DECODE"} /\ stats'.pipelineFlushes # stats.pipelineFlushes)
    /\ ~(st = "FETCH" /\ ~running')
\* after the step the record of slot st is held in st, marked stalled
StaysIn(st) ==
    /\ IsRec(pipeline'[st])
    /\ pipeline'[st].stalled
    /\ pipeline'[st].stage = st
    /\ pipeline'[st].PC = pipeline[st].PC
\* after the step the record of slot st is in the next slot (a FETCH record
\* takes its PC from the fetch)
MovesOn(st) ==
    /\ IsRec(pipeline'[NextSlot(st)])
    /\ ~pipeline'[NextSlot(st)].stalled
    /\ pipeline'[NextSlot(st)].stage = NextSlot(st)
    /\ st # "FETCH" => pipeline'[NextSlot(st)].PC = pipeline[st].PC

\* C34: no record is lost to another record written over it: in a step that
\* raises no error, every record that does not retire, is not flushed by a
\* mispredict and is not a FETCH record whose fetch finds no instruction is
\* afterwards in exactly one slot, its own (held) or the next; a record held in
\* EXECUTE or DECODE keeps the records behind it in their slots, and a record
\* held in FETCH is not replaced by a newly seeded one.
C34_NoRecordOverwritten ==
    [][(StepTaken /\ ~ub /\ 404 \notin logs') =>
          \A st \in Stages :
             Kept(st) =>
                /\ StaysIn(st) # MovesOn(st)
                /\ StaysIn(st) =>
                      \A up \in Stages :
                         (NextSlot(up) = st /\ up # st /\ Kept(up)) => StaysIn(up)]_vars

\* C34 witness: forwarding off, the second addi of the ADDI chain is held in
\* DECODE and the third behind it in FETCH, EXECUTE left empty
C34_HeldBehindStall ==
    /\ Runs(AddiChain, EmptyMap) /\ isPipeline /\ ~isDataForwarding
    /\ IsRec(pipeline["DECODE"]) /\ pipeline["DECODE"].stalled /\ pipeline["DECODE"].PC = 4
    /\ IsRec(pipeline["FETCH"]) /\ pipeline["FETCH"].stalled /\ pipeline["FETCH"].PC = 8
    /\ pipeline["EXECUTE"] = NULL
    /\ stats.stallBubbles = 2

\* the category counter of the instruction word w, by its opcode
CategoryOf(w) ==
    CASE w % 128 \in {3, 35} -> "dataTransferInstructions"
      [] w % 128 \in {51, 19, 55, 23} -> "aluInstructions"
      [] OTHER -> "controlInstructions"
\* the three category counters
CategoryCounters ==
    {"dataTransferInstructions", "aluInstructions", "controlInstructions"}

\* C35: an instruction is counted in exactly one of dataTransferInstructions,
\* aluInstructions and controlInstructions, by one, in the cycle in which it
\* completes DECODE and moves to EXECUTE; in any other cycle (the record held in
\* DECODE, a flush, no record in DECODE) the three counters keep their values,
\* so that none is ever decremented.
C35_CountedOnceAtDecode ==
    [][(StepTaken /\ ~ub /\ 404 \notin logs /\ 404 \notin logs') =>
          \A f \in CategoryCounters :
             stats'[f] = IF Decodes /\ CategoryOf(pipeline'["EXECUTE"].instruction) = f
                         THEN stats[f] + 1
                         ELSE stats[f]]_vars

\* C35 witness: forwarding off, the bne of CountDown has been held in DECODE
\* behind the addi it depends on, counted once when it moved on, and has then
\* flushed FETCH and DECODE: two ALU instructions and one control instruction
C35_CountedAfterStallAndFlush ==
    /\ Runs(CountDown, EmptyMap) /\ isPipeline /\ ~isDataForwarding
    /\ stats.stallBubbles >= 2
    /\ stats.pipelineFlushes = 1
    /\ stats.aluInstructions = 2 /\ stats.controlInstructions = 1
    /\ stats.dataTransferInstructions = 0

\* the record of slot st writes register reg
Writes(st, reg) ==
    /\ IsRec(pipeline[st])
    /\ pipeline[st].stage = st
    /\ pipeline[st].instructionType \in {"R", "I", "U", "UJ"}
    /\ pipeline[st].rd = reg
    /\ reg # 0
\* the value of register reg in program order at the record in EXECUTE: what
\* the record in MEMORY commits (in the step after this one) if it writes reg,
\* else what the record in WRITEBACK commits (in this step) if it writes reg,
\* else the value in the register file
InOrderValue(reg) ==
    IF Writes("MEMORY", reg) THEN step(step(Sim).s).s.registers[reg]
    ELSE IF Writes("WRITEBACK", reg) THEN step(Sim).s.registers[reg]
    ELSE registers[reg]
\* RY as the record computes it from the in-order values of its source
\* registers (and from its immediate, for an I-type)
InOrderResult(n) ==
    executeInstruction(n,
        [instructionRegisters EXCEPT
            !.RA = InOrderValue(n.rs1),
            !.RB = IF n.instructionType = "R" THEN InOrderValue(n.rs2)
                   ELSE ImmI(n.instruction)],
        PC).ir.RY
\* no entry of the dependency table belongs to a store or a branch (the
\* entries of C25)
NoStoreBranchEntry ==
    \A i \in 1..Len(registerDependencies) :
        (registerDependencies[i].opcode % 128) \notin {35, 99}

\* C36: pipelined, forwarding on: a record that executes uses for each source
\* register the value of the youngest older instruction in flight that writes
\* it, or the register-file value when there is none, also after it was held in
\* EXECUTE by a load-use stall: the RY of an R-type, I-type ALU or load record
\* is the result computed from those values (stated for tables without the
\* entries of C25; the rs2 operand of branches and stores is C21 and C24).
C36_OperandsInOrder ==
    [][(/\ isPipeline /\ isDataForwarding
        /\ Executes({"R", "I"})
        /\ pipeline["EXECUTE"].opcode \in {51, 19, 3}
        /\ NoStoreBranchEntry
        /\ 404 \notin step(step(Sim).s).s.logs) =>
          instructionRegisters'.RY = InOrderResult(pipeline["EXECUTE"])]_vars

\* sequence p is an initial part of sequence q
IsPrefix(p, q) == Len(p) <= Len(q) /\ \A i \in 1..Len(p) : p[i] = q[i]

\* C37: pipelined, no error raised: the addresses retired at WRITEBACK so far
\* are, in order, those the unpipelined run of the same program retires (one
\* sequence is an initial part of the other, the unpipelined run being cut at
\* the step cap of run()), and they are the same sequence once both runs have
\* ended; no instruction retires twice or is skipped after a branch or jump
\* that was predicted taken.
C37_RetiredInProgramOrder ==
    (image.kind = "ok" /\ isPipeline /\ ~ub /\ 404 \notin logs) =>
        \E ref \in {Ref(FALSE, isDataForwarding)} :
            /\ IsPrefix(retired, ref.retired) \/ IsPrefix(ref.retired, retired)
            /\ (RunEnded /\ CleanEnd(ref)) => retired = ref.retired

\* the stage of the dependency entry of a record that waits in slot st
EntryStage(st) ==
    CASE st = "EXECUTE" -> "DECODE" [] st = "MEMORY" -> "EXECUTE" [] OTHER -> "MEMORY"
\* the slots past DECODE that hold a record with a destination register (rd
\* field other than 0)
Producers ==
    {st \in {"EXECUTE", "MEMORY", "WRITEBACK"} : IsRec(pipeline[st]) /\ pipeline[st].rd # 0}
\* entry i of the dependency table is that of the record in slot st
EntryOf(i, st) ==
    /\ registerDependencies[i].pc = pipeline[st].PC
    /\ registerDependencies[i].reg = pipeline[st].rd
    /\ registerDependencies[i].stage = EntryStage(st)

\* C38: after every step that raised no error the entries of the dependency
\* table and the records in EXECUTE, MEMORY and WRITEBACK that have a
\* destination register (rd other than 0) correspond one to one, the entry of
\* the record in EXECUTE in stage DECODE, in MEMORY in stage EXECUTE, in
\* WRITEBACK in stage MEMORY, also with two instances of one PC in flight; the
\* table is empty when all slots are empty.
C38_EntriesMatchRecords ==
    (~ub /\ 404 \notin logs) =>
        /\ \A st \in Producers : \E i \in 1..Len(registerDependencies) : EntryOf(i, st)
        /\ \A i \in 1..Len(registerDependencies) : \E st \in Producers : EntryOf(i, st)
        /\ Len(registerDependencies) = Cardinality(Producers)
        /\ SlotsEmpty => registerDependencies = <<>>

\* a call of step(), pipelined, that raises no error and in which the record
\* waiting in MEMORY makes its memory access and moves to WRITEBACK
MemoryStep ==
    /\ isPipeline
    /\ StepTaken /\ ~ub /\ 404 \notin logs /\ 404 \notin logs'
    /\ IsRec(pipeline["MEMORY"])
    /\ pipeline["MEMORY"].stage = "MEMORY"
    /\ IsRec(pipeline'["WRITEBACK"])
    /\ pipeline'["WRITEBACK"].PC = pipeline["MEMORY"].PC
\* the register file after the call of step() that follows this one
NextRegisters == step(step(Sim).s).s.registers

\* C39: pipelined, under stalls, bubbles and flushes: the RY a record's EXECUTE
\* wrote is still in the bundle when the cycle ends, and is what the record
\* reads at MEMORY in the next cycle (its RZ is computed from it, and a load or
\* store accesses that address); the RZ its MEMORY wrote is still in the bundle
\* when the cycle ends, and is what WRITEBACK commits to rd in the cycle after.
C39_BundleNotClobbered ==
    /\ [][(isPipeline /\ Executes({"R", "I", "S", "SB", "U", "UJ"})) =>
             instructionRegisters'.RY = AfterExecuteTurn.RY]_vars
    /\ [][MemoryStep =>
             /\ instructionRegisters'.RZ =
                   memoryAccess(pipeline["MEMORY"], instructionRegisters, dataMap).ir.RZ
             /\ Len(accesses') > Len(accesses) =>
                   accesses'[Len(accesses')].address = instructionRegisters.RY
             /\ Writes("MEMORY", pipeline["MEMORY"].rd) =>
                   NextRegisters[pipeline["MEMORY"].rd] = instructionRegisters'.RZ]_vars

\* C39 witness: the load of LoadUseProg waits in WRITEBACK with the loaded word
\* in RZ while its consumer is held in EXECUTE behind a bubble
C39_LoadedWordKept ==
    /\ Runs(LoadUseProg, DataWord) /\ isPipeline /\ isDataForwarding
    /\ IsRec(pipeline["WRITEBACK"]) /\ pipeline["WRITEBACK"].PC = 0
    /\ pipeline["MEMORY"] = NULL
    /\ IsRec(pipeline["EXECUTE"]) /\ pipeline["EXECUTE"].stalled
    /\ instructionRegisters.RZ = 305419896

\* the simulator after k further calls of step(), or after the one of them that
\* raises an error
RECURSIVE AfterSteps(_, _)
AfterSteps(s, k) ==
    IF k = 0 \/ 404 \in s.logs \/ s.ub THEN s
    ELSE AfterSteps(CHOOSE t \in {step(s).s} : TRUE, k - 1)
\* the k-th of the calls of step() that follow raises no error and holds the
\* record of slot st in st
HeldAt(k, st) ==
    \E s \in {AfterSteps(Sim, k - 1)} : \E t \in {step(s).s} :
        /\ 404 \notin t.logs /\ ~t.ub
        /\ IsRec(s.pipeline[st]) /\ IsRec(t.pipeline[st])
        /\ t.pipeline[st].stalled
        /\ t.pipeline[st].PC = s.pipeline[st].PC
\* the k-th of the calls that follow takes the record out of DECODE: it moves
\* to EXECUTE, or a mispredict flushes it
LeavesDecodeAt(k) ==
    \E s \in {AfterSteps(Sim, k - 1)} : \E t \in {step(s).s} :
        \/ t.stats.pipelineFlushes > s.stats.pipelineFlushes
        \/ /\ IsRec(t.pipeline["EXECUTE"])
           /\ t.pipeline["EXECUTE"].stage = "EXECUTE"
           /\ t.pipeline["EXECUTE"].PC = s.pipeline["DECODE"].PC
\* the records of slot st and of the slots after it
UpTo(st) ==
    {u \in CASE st = "EXECUTE" -> {"EXECUTE", "MEMORY", "WRITEBACK"}
             [] st = "MEMORY" -> {"MEMORY", "WRITEBACK"}
             [] OTHER -> {"WRITEBACK"} : IsRec(pipeline[u])}
\* after k further calls, none of which raises an error, the record of slot st
\* has retired, after the records that were ahead of it
RetiredWithin(k, st) ==
    \E t \in {AfterSteps(Sim, k)} :
        (404 \notin t.logs /\ ~t.ub) =>
            /\ Len(t.retired) >= Len(retired) + Cardinality(UpTo(st))
            /\ t.retired[Len(retired) + Cardinality(UpTo(st))] = pipeline[st].PC
\* a program is loaded, the mode is pipelined, no error so far
PipelinedNoError == image.kind = "ok" /\ isPipeline /\ ~ub /\ 404 \notin logs
\* no record is held in a slot for more than two calls in a row, none in
\* EXECUTE (load-use) and none at all with forwarding on for more than one; a
\* record in DECODE is in EXECUTE, or flushed, after three calls at most; a
\* record past DECODE has retired after four (EXECUTE), two (MEMORY), one call
BoundedStalls ==
    PipelinedNoError =>
        /\ \A st \in {"FETCH", "DECODE", "EXECUTE"} :
              /\ ~(HeldAt(1, st) /\ HeldAt(2, st) /\ HeldAt(3, st))
              /\ (isDataForwarding \/ st = "EXECUTE") => ~(HeldAt(1, st) /\ HeldAt(2, st))
        /\ IsRec(pipeline["DECODE"]) =>
              \/ LeavesDecodeAt(1)
              \/ HeldAt(1, "DECODE") /\ LeavesDecodeAt(2)
              \/ HeldAt(1, "DECODE") /\ HeldAt(2, "DECODE") /\ LeavesDecodeAt(3)
              \/ \E t \in {AfterSteps(Sim, 3)} : 404 \in t.logs \/ t.ub
        /\ IsRec(pipeline["EXECUTE"]) => RetiredWithin(4, "EXECUTE")
        /\ IsRec(pipeline["MEMORY"]) => RetiredWithin(2, "MEMORY")
        /\ IsRec(pipeline["WRITEBACK"]) => RetiredWithin(1, "WRITEBACK")

\* a call of step() is made: the steps of Step, under a guard and an effect
\* that do not run the cycle
StepCalled ==
    /\ stepCalls < MaxStepCalls /\ ~ub
    /\ stepCalls' = stepCalls + 1 /\ runSteps' = 0
\* the host keeps calling step() for as long as the bound on the calls allows
FairSpec == Init /\ [][Next]_vars /\ WF_stepCalls(StepCalled)
\* some slot holds a record that the last call held there
AnyStalled ==
    \E st \in {"FETCH", "DECODE", "EXECUTE"} :
        IsRec(pipeline[st]) /\ pipeline[st].stalled
\* the run is cut short: an error, or another program loaded
CutShort == 404 \in logs \/ ub \/ stepCalls = 0

\* C40: pipelined, no runtime error, step() called again and again: a record
\* is held in FETCH, DECODE or EXECUTE for at most 2 calls in a row (1 in
\* EXECUTE, the load-use stall, and 1 anywhere with forwarding on), a state
\* with a held record leads to one without, a record in DECODE moves
\* to EXECUTE within three calls unless it is flushed, and every record past
\* DECODE retires, in its turn, within four calls.
C40_NoIndefiniteStall ==
    /\ []BoundedStalls
    /\ (PipelinedNoError /\ AnyStalled /\ stepCalls + 2 <= MaxStepCalls)
          ~> (~AnyStalled \/ CutShort)

\* C40 witness: forwarding off, the second addi of the chain has left DECODE
\* after being held there for two calls
C40_AdvancedAfterTwoStalls ==
    /\ Runs(AddiChain, EmptyMap) /\ isPipeline /\ ~isDataForwarding
    /\ stats.stallBubbles = 2 /\ retired = <<0>>
    /\ IsRec(pipeline["EXECUTE"]) /\ pipeline["EXECUTE"].PC = 4
    /\ ~pipeline["EXECUTE"].stalled
====
